---- MODULE Spec2Model ----
(***************************************************************************)
(* A model of the db-connector extension core: the statement splitter and  *)
(* batch executor (QueryExecutor), the connection lifecycle                *)
(* (ConnectionManager and the providers) and the editable-result diff      *)
(* engine (DataEditor).                                                    *)
(*                                                                         *)
(* Text is modelled as a sequence of one-character strings, so that        *)
(* scanning, trimming and quoting are computed character by character.     *)
(***************************************************************************)
EXTENDS Integers, Sequences, FiniteSets, TLC

(***************************************************************************)
(* Bounds of the model.                                                    *)
(***************************************************************************)
\* Longest script handed to the splitter, counted in lexemes.
MaxLexemes == 5
\* Calls of ConnectionManager methods that may be in flight at once.
MaxTasks == 2
\* Provider instances alive at once (in the manager's map or still used by a
\* call in flight).
MaxProviders == 2
\* Network handles (connections, pools, clients) alive at once.
MaxHandles == 2
MaxQueryLexemes == 5
MaxRowCount == 1
MaxConfiguredHistory == 2
MaxChanges == 3
\* pending changes of a session that saves
MaxSavedChanges == 2
\* Longest string value formatValue is given, besides the named examples.
MaxTextLength == 3
\* Longest text of the editor, counted in lines.
MaxEditorLines == 4
\* The minutes the clock of the schema cache runs for.
MaxClock == 6
\* Update passes of the schema cache that may be in flight at once.
MaxPasses == 2
\* Longest query edit mode is asked for, counted in lexemes.
MaxEditLexemes == 5

(***************************************************************************)
(* Shared text helpers.                                                    *)
(***************************************************************************)
\* The white space String.prototype.trim() removes, as far as the model's
\* alphabet has it.
Whitespace == {" ", "\n"}

RECURSIVE TrimStart(_)
TrimStart(s) ==
    IF s # <<>> /\ Head(s) \in Whitespace THEN TrimStart(Tail(s)) ELSE s

RECURSIVE TrimEnd(_)
TrimEnd(s) ==
    IF s # <<>> /\ s[Len(s)] \in Whitespace
    THEN TrimEnd(SubSeq(s, 1, Len(s) - 1))
    ELSE s

Trim(s) == TrimEnd(TrimStart(s))

RECURSIVE Flatten(_)
Flatten(ss) == IF ss = <<>> THEN <<>> ELSE Head(ss) \o Flatten(Tail(ss))

(***************************************************************************)
(* DatabaseType (types.ts).                                                *)
(***************************************************************************)
MySQL == "mysql"
PostgreSQL == "postgresql"
MSSQL == "mssql"
MongoDB == "mongodb"
MariaDB == "mariadb"
DatabaseType == {MySQL, PostgreSQL, MSSQL, MongoDB, MariaDB}

(***************************************************************************)
(* QueryExecutor.splitQueries: one left-to-right scan over the script.     *)
(***************************************************************************)
\* query[i]; reading past the end of a JavaScript string gives undefined.
CharAt(query, i) == IF i >= 1 /\ i <= Len(query) THEN query[i] ELSE "undefined"

\* The scan's locals before the first character.  boundaries is a ghost
\* field: the positions of the semicolons the scan split on.
ScanInit ==
    [queries |-> <<>>, currentQuery |-> <<>>,
     inSingleQuote |-> FALSE, inDoubleQuote |-> FALSE,
     inLineComment |-> FALSE, inBlockComment |-> FALSE,
     boundaries |-> {}]

\* What the loop body appends when it closes a block comment:
\* currentQuery += '*/'
ClosedBlockText_StarOnly == <<"*">>

ClosedBlockText == <<"*", "/">>

\* The block-comment close test of the loop body.
ClosesBlock(char, nextChar) == char = "*" /\ nextChar = "/"

\* The split test of the loop body.
SplitsHere(char, sq, dq, lc, bc) == char = ";" /\ ~sq /\ ~dq /\ ~lc /\ ~bc

\* One iteration of the for loop at (1-based) position i: the locals after it
\* and the position of the next iteration.
ScanChar(query, s, i) ==
    LET char == query[i]
        nextChar == CharAt(query, i + 1)
        \* Handle line comments
        free1 == ~s.inSingleQuote /\ ~s.inDoubleQuote /\ ~s.inBlockComment
        lc1 == IF free1 /\ char = "-" /\ nextChar = "-" THEN TRUE ELSE s.inLineComment
        lc == IF free1 /\ char = "\n" /\ lc1 THEN FALSE ELSE lc1
        \* Handle block comments
        free2 == ~s.inSingleQuote /\ ~s.inDoubleQuote /\ ~lc
        bc == IF free2 /\ char = "/" /\ nextChar = "*" THEN TRUE ELSE s.inBlockComment
    IN  IF free2 /\ ClosesBlock(char, nextChar)
        THEN [s |-> [s EXCEPT !.inLineComment = lc, !.inBlockComment = FALSE,
                              !.currentQuery = @ \o ClosedBlockText],
              i |-> i + 2]
        ELSE
            LET \* Handle quotes
                free3 == ~lc /\ ~bc
                sq == IF free3 /\ char = "'" /\ ~s.inDoubleQuote
                      THEN ~s.inSingleQuote ELSE s.inSingleQuote
                dq == IF free3 /\ char = "\"" /\ ~sq
                      THEN ~s.inDoubleQuote ELSE s.inDoubleQuote
                modes == [s EXCEPT !.inLineComment = lc, !.inBlockComment = bc,
                                   !.inSingleQuote = sq, !.inDoubleQuote = dq]
                trimmed == Trim(s.currentQuery)
            IN  IF SplitsHere(char, sq, dq, lc, bc)
                THEN [s |-> [modes EXCEPT
                                !.queries = IF trimmed # <<>> THEN Append(@, trimmed) ELSE @,
                                !.currentQuery = <<>>,
                                !.boundaries = @ \union {i}],
                      i |-> i + 1]
                ELSE [s |-> [modes EXCEPT !.currentQuery = Append(@, char)],
                      i |-> i + 1]

RECURSIVE Scan(_, _, _)
Scan(query, s, i) ==
    IF i > Len(query) THEN s
    ELSE LET r == ScanChar(query, s, i) IN Scan(query, r.s, r.i)

splitQueries(query, type) ==
    IF type = MongoDB THEN <<Trim(query)>>
    ELSE LET s == Scan(query, ScanInit, 1)
             trimmed == Trim(s.currentQuery)
         IN  IF trimmed # <<>> THEN Append(s.queries, trimmed) ELSE s.queries

\* The positions splitQueries treated as statement boundaries (none for the
\* document store, whose script is never split).
splitBoundaries(query, type) ==
    IF type = MongoDB THEN {} ELSE Scan(query, ScanInit, 1).boundaries

(***************************************************************************)
(* The scripts the splitter is checked on: every concatenation of at most  *)
(* MaxLexemes lexemes.  The comment markers are lexemes of their own so    *)
(* that short scripts already hold comments, quotes and their mixtures.    *)
(***************************************************************************)
Lexemes ==
    { <<"a">>, <<" ">>, <<";">>, <<"'">>, <<"\"">>, <<"\n">>, <<"/">>,
      <<"-", "-">>, <<"/", "*">>, <<"*", "/">> }

RECURSIVE LexemeSeqs(_)
LexemeSeqs(n) ==
    IF n = 0 THEN { <<>> }
    ELSE LET shorter == LexemeSeqs(n - 1)
         IN  shorter \union { Append(p, l) : p \in { q \in shorter : Len(q) = n - 1 }, l \in Lexemes }

ScriptsUpTo(n) == { Flatten(p) : p \in LexemeSeqs(n) }

\* The dialects the splitter is checked under: one semicolon-delimited
\* dialect stands for the four (the scan does not look at which), and the
\* document store.
SplitTypes == {MySQL, MongoDB}

(***************************************************************************)
(* State.                                                                  *)
(***************************************************************************)
VARIABLES
    \* splitter harness: the script, its dialect, the position of the run
    \* ("input", "done") and what splitQueries returned
    script, scriptType, splitPc, splitOut, splitAt,
    \* ConnectionManager: the configuration map, the persisted list, the
    \* secret store, the provider map (0: no entry), the provider instances,
    \* the handles that are open on the network, the calls in flight, and
    \* the call that returned in the last step
    connections, persisted, secrets, providers, provObj, openHandles, tasks, ret,
    \* QueryExecutor.executeQuery: the position of the call ("idle", "single",
    \* "batch", "done"), the statements of the script, the index of the
    \* statement at the provider, the result list, hasError, the cancellation
    \* token, the history and its configured size, the statements issued to
    \* the provider with what became of each, what the results panel was
    \* given and the messages shown
    qePc, queries, qi, results, hasError, isCancellationRequested,
    queryHistory, maxHistorySize, issued, shown, notice,
    \* DataEditor: pendingChanges.updates, .inserts and .deletes, and the
    \* method that was called in the last step with what it returned
    updates, inserts, deletes, deRet,
    \* executeChanges between its awaits: statements.length, position, affectedRows, errors
    saving,
    \* One provider instance on its own
    pv,           \* its class, state, handle and the lifecycle call in flight
    pvRet,        \* the metadata or query call that returned in the last step
    \* ResultsPanel.enableEditMode: the position of the call, its query, what
    \* parseQueryForTable and getTableMetadata returned, editState.enabled
    \* and the warning shown
    edit,
    \* SqlCompletionProvider: which connections have a provider, the schema
    \* cache, the clock, the update passes in flight and what the last step
    \* of the cache did
    scLive, schemaCache, now, passes, scRet,
    \* QueryExecutor.executeActiveEditorQuery: the call and what it chose
    active,
    \* the last call of provider.getColumns: who called, the class of the
    \* provider, the table the caller meant, the arguments and the answer
    colCall

splitVars == <<script, scriptType, splitPc, splitOut, splitAt>>

cmVars == <<connections, persisted, secrets, providers, provObj, openHandles, tasks, ret>>

qeVars == <<qePc, queries, qi, results, hasError, isCancellationRequested,
            queryHistory, maxHistorySize, issued, shown, notice>>

deVars == <<updates, inserts, deletes, deRet, saving>>

pvVars == <<pv, pvRet>>

edVars == <<edit>>

scVars == <<scLive, schemaCache, now, passes, scRet>>

aeVars == <<active>>

colVars == <<colCall>>

vars == <<splitVars, cmVars, qeVars, deVars, pvVars, edVars, scVars, aeVars, colVars>>

(***************************************************************************)
(* The splitter harness: a script is chosen, then split.                   *)
(***************************************************************************)
SplitStart ==
    /\ script \in ScriptsUpTo(MaxLexemes)
    /\ scriptType \in SplitTypes
    /\ splitPc = "input"
    /\ splitOut = <<>>
    /\ splitAt = {}

SplitRun ==
    /\ splitPc = "input"
    /\ splitOut' = splitQueries(script, scriptType)
    /\ splitAt' = splitBoundaries(script, scriptType)
    /\ splitPc' = "done"
    /\ UNCHANGED <<script, scriptType>>

(***************************************************************************)
(* The lexical structure of SQL the splitter is measured against: strings  *)
(* in single or double quotes, -- comments to the end of the line and      *)
(* block comments from the two-character opener to the next two-character  *)
(* closer after it.  RefScan reads the script in these terms and returns   *)
(* the positions lying inside a string or a comment.                       *)
(*   mode     the construct the scan is in ("default" outside all)         *)
(*   open     the positions read inside the construct not yet closed       *)
(*   closed   the positions inside constructs that were closed             *)
(***************************************************************************)
RECURSIVE RefScan(_, _, _, _, _)
RefScan(query, i, mode, open, closed) ==
    IF i > Len(query)
    THEN [closed |-> IF mode = "line" THEN closed \union open ELSE closed,
          inside |-> closed \union open]
    ELSE
        LET char == query[i]
            nextChar == CharAt(query, i + 1)
        IN  CASE mode = "default" ->
                    IF char = "-" /\ nextChar = "-" THEN RefScan(query, i + 2, "line", {}, closed)
                    ELSE IF char = "/" /\ nextChar = "*" THEN RefScan(query, i + 2, "block", {}, closed)
                    ELSE IF char = "'" THEN RefScan(query, i + 1, "single", {}, closed)
                    ELSE IF char = "\"" THEN RefScan(query, i + 1, "double", {}, closed)
                    ELSE RefScan(query, i + 1, "default", {}, closed)
              [] mode = "single" ->
                    IF char = "'" THEN RefScan(query, i + 1, "default", {}, closed \union open)
                    ELSE RefScan(query, i + 1, mode, open \union {i}, closed)
              [] mode = "double" ->
                    IF char = "\"" THEN RefScan(query, i + 1, "default", {}, closed \union open)
                    ELSE RefScan(query, i + 1, mode, open \union {i}, closed)
              [] mode = "line" ->
                    IF char = "\n" THEN RefScan(query, i + 1, "default", {}, closed \union open)
                    ELSE RefScan(query, i + 1, mode, open \union {i}, closed)
              [] OTHER ->
                    IF char = "*" /\ nextChar = "/" THEN RefScan(query, i + 2, "default", {}, closed \union open)
                    ELSE RefScan(query, i + 1, mode, open \union {i}, closed)

\* The positions inside a string or comment that is closed in the script.
RefEnclosed(query) == RefScan(query, 1, "default", {}, {}).closed

\* The positions inside a string or comment, closed or left open.
RefInside(query) == RefScan(query, 1, "default", {}, {}).inside

Semicolons(query) == { i \in 1..Len(query) : query[i] = ";" }

\* The text between consecutive semicolons (and before the first, after the
\* last), in order.
RECURSIVE FragmentsFrom(_, _, _)
FragmentsFrom(query, i, current) ==
    IF i > Len(query) THEN << current >>
    ELSE IF query[i] = ";" THEN << current >> \o FragmentsFrom(query, i + 1, <<>>)
    ELSE FragmentsFrom(query, i + 1, Append(current, query[i]))

RECURSIVE TrimmedNonEmpty(_)
TrimmedNonEmpty(frags) ==
    IF frags = <<>> THEN <<>>
    ELSE LET t == Trim(Head(frags))
         IN  (IF t # <<>> THEN << t >> ELSE <<>>) \o TrimmedNonEmpty(Tail(frags))

\* C2: no semicolon that lies inside a quoted string or a comment of the
\* script is ever treated as a statement boundary by splitQueries.
C2_NoBoundaryInsideStringOrComment ==
    (splitPc = "done" /\ scriptType # MongoDB)
        => splitAt \intersect RefEnclosed(script) = {}

\* C3: when none of the script's semicolons is quoted or commented,
\* splitQueries returns the trimmed non-empty fragments between the
\* semicolons, in source order, the unterminated last fragment included.
C3_SplitsAtEverySemicolon ==
    (splitPc = "done" /\ scriptType # MongoDB
        /\ Semicolons(script) \intersect RefInside(script) = {})
        => splitOut = TrimmedNonEmpty(FragmentsFrom(script, 1, <<>>))

(***************************************************************************)
(* ConnectionManager and the providers.                                    *)
(*                                                                         *)
(* Every method is async: it runs to its next await on a store or on the   *)
(* network, and other calls run while it is suspended.  A call in flight   *)
(* is a task; there is one action for the call (the code up to its first   *)
(* suspension) and one for each resumption.  An await on a promise that is *)
(* already settled by the callee's own synchronous code (the manager       *)
(* awaiting a provider method that did not suspend) is not a suspension    *)
(* of the model.  The outcome of a store or network operation is the       *)
(* action's parameter ok.                                                  *)
(***************************************************************************)
\* One id: every map of the manager is keyed by the connection id, and no
\* method reads or writes the entry of an id other than its argument's.
ConnIds == {"c1"}
TaskIds == 1..MaxTasks
ProvIds == 1..MaxProviders
HandleIds == 1..MaxHandles

\* A configuration is modelled by its dialect tag, the one field the
\* lifecycle depends on.
CfgTypes == {MySQL, PostgreSQL}
NoConfig == "none"
Passwords == {"p1", "p2"}
NoSecret == "none"

\* ConnectionState (types.ts)
Disconnected == "disconnected"
Connecting == "connecting"
Connected == "connected"
Error == "error"

\* PostgreSQLProvider and MongoDBProvider assign this.pool / this.client
\* before they await the network; MySQLProvider (MariaDBProvider) and
\* MSSQLProvider assign the handle from the awaited result.
AssignsHandleBeforeConnect(type) == type \in {PostgreSQL, MongoDB}

\* A provider as constructed: state Disconnected, no handle.
NewProvider(type) == [type |-> type, state |-> Disconnected, handle |-> 0]
\* An instance slot nothing refers to.
NoProvider == [type |-> "none", state |-> Disconnected, handle |-> 0]

EmptyConfigs == [c \in ConnIds |-> NoConfig]

IdleTask ==
    [op |-> "none", id |-> "none", pc |-> "idle", prov |-> 0, h |-> 0,
     from |-> "none", created |-> FALSE, hadProvider |-> FALSE,
     called |-> FALSE, fired |-> 0, cfg |-> NoConfig, pw |-> NoSecret,
     snap |-> EmptyConfigs, overlapped |-> FALSE]

\* What a call that returned reports: the method, its id, whether it
\* resolved ("ok") or rejected ("error") and at which stage, the provider it
\* worked on, and the notifications it fired.
NoRet ==
    [op |-> "none", id |-> "none", result |-> "none", stage |-> "none",
     prov |-> 0, hadProvider |-> FALSE, called |-> FALSE, fired |-> 0]

Returned(tk, result, stage) ==
    [op |-> tk.op, id |-> tk.id, result |-> result, stage |-> stage,
     prov |-> tk.prov, hadProvider |-> tk.hadProvider, called |-> tk.called,
     fired |-> tk.fired]

\* ConnectionManager.getConnectionState
getConnectionState(id) ==
    IF providers[id] # 0 THEN provObj[providers[id]].state ELSE Disconnected

Active(t) == tasks[t].pc # "idle"
ActiveOn(id) == { t \in TaskIds : Active(t) /\ tasks[t].id = id }

\* A call takes the lowest free task slot.
FreeSlot(t) == ~Active(t) /\ \A u \in TaskIds : u < t => Active(u)

\* Instances and handles something still refers to.
UsedProviders(provs, tks) ==
    ({ provs[c] : c \in ConnIds } \union { tks[t].prov : t \in TaskIds }) \ {0}
UsedHandles(po, opn, tks) ==
    (opn \union { po[q].handle : q \in ProvIds } \union { tks[t].h : t \in TaskIds }) \ {0}

FreeProviders == ProvIds \ UsedProviders(providers, tasks)
FreeHandles == HandleIds \ UsedHandles(provObj, openHandles, tasks)
Lowest(S) == CHOOSE x \in S : \A y \in S : x <= y

\* An instance nothing refers to any more is garbage; its slot is cleared.
Collect(po, provs, tks) ==
    [q \in ProvIds |-> IF q \in UsedProviders(provs, tks) THEN po[q] ELSE NoProvider]

\* The state a provider is left in when its connect fails, and what the
\* manager's catch block does to the provider map then (nothing).
StateAfterFailedConnect_Disconnected == Disconnected

StateAfterFailedConnect == Error

ProvidersAfterFailedConnect_Dropped(id) == [providers EXCEPT ![id] = 0]

ProvidersAfterFailedConnect(id) == providers

\* ConnectionManager.disconnect: this.providers.delete(connectionId)
ProvidersAfterDisconnect_Kept(id) == providers

ProvidersAfterDisconnect(id) == [providers EXCEPT ![id] = 0]

CMStart ==
    /\ connections = [c \in ConnIds |-> IF c = "c1" THEN MySQL ELSE NoConfig]
    /\ persisted = connections
    /\ secrets = [c \in ConnIds |-> IF c = "c1" THEN "p1" ELSE NoSecret]
    /\ providers = [c \in ConnIds |-> 0]
    /\ provObj = [q \in ProvIds |-> NoProvider]
    /\ openHandles = {}
    /\ tasks = [t \in TaskIds |-> IdleTask]
    /\ ret = NoRet

\* The task records after a step of slot t, a call on id, whose record
\* becomes tk.  A step
\* from an idle slot is the call of a method: it overlaps every call already
\* in flight on the same id, and each of them is marked so.
Stepped(t, id, tk) ==
    LET others == ActiveOn(id) \ {t}
    IN  [u \in TaskIds |->
            IF u = t
            THEN IF Active(t) \/ tk = IdleTask THEN tk
                 ELSE [tk EXCEPT !.overlapped = (others # {})]
            ELSE IF ~Active(t) /\ u \in others
                 THEN [tasks[u] EXCEPT !.overlapped = TRUE]
                 ELSE tasks[u]]

\* What a step leaves behind for the call in slot t, whose record is now tk:
\* a call that reached pc "return" has resolved and frees its slot.
Commit(t, tk, provs, po, opn) ==
    /\ providers' = provs
    /\ openHandles' = opn
    /\ IF tk.pc = "return"
       THEN /\ tasks' = Stepped(t, tk.id, IdleTask)
            /\ ret' = Returned(tk, "ok", "done")
       ELSE /\ tasks' = Stepped(t, tk.id, tk)
            /\ ret' = NoRet
    /\ provObj' = Collect(po, provs, tasks')

\* The call in slot t rejects: the catch block logs and rethrows.
Reject(t, tk, stage, provs, po) ==
    /\ providers' = provs
    /\ tasks' = Stepped(t, tk.id, IdleTask)
    /\ ret' = Returned(tk, "error", stage)
    /\ provObj' = Collect(po, provs, tasks')
    /\ UNCHANGED openHandles

\* connect(id), to the await of getPassword.  An unknown id throws at once.
CallConnect(t, id) ==
    /\ FreeSlot(t)
    /\ LET tk == [IdleTask EXCEPT !.op = "connect", !.id = id,
                                  !.cfg = connections[id]]
       IN  IF connections[id] = NoConfig
           THEN Reject(t, tk, "config", providers, provObj)
           ELSE Commit(t, [tk EXCEPT !.pc = "cn_password"], providers, provObj, openHandles)
    /\ UNCHANGED <<connections, persisted, secrets>>

\* createProvider(type): the default branch of its switch throws.
createProviderThrows_Never(type) == FALSE

createProviderThrows(type) == type \notin DatabaseType

\* connect(id) resumed with the password: the provider is looked up or
\* created and put in the map, and provider.connect runs to its await of the
\* network (state Connecting; a pool or client is assigned before it).
ConnectPassword(t, ok) ==
    /\ tasks[t].pc = "cn_password"
    /\ LET tk == tasks[t]
           id == tk.id
           existing == providers[id]
       IN  IF ~ok \/ (existing = 0 /\ createProviderThrows(tk.cfg))
           THEN Reject(t, tk, IF ok THEN "type" ELSE "secret", providers, provObj)
           ELSE /\ existing # 0 \/ FreeProviders # {}
                /\ LET q == IF existing # 0 THEN existing ELSE Lowest(FreeProviders)
                       po1 == IF existing # 0 THEN provObj
                              ELSE [provObj EXCEPT ![q] = NewProvider(tk.cfg)]
                       before == AssignsHandleBeforeConnect(po1[q].type)
                   IN  /\ before => FreeHandles # {}
                       /\ LET h == IF before THEN Lowest(FreeHandles) ELSE 0
                          IN  Commit(t,
                                  [tk EXCEPT !.pc = "cn_network", !.prov = q, !.h = h,
                                             !.created = (existing = 0),
                                             !.from = getConnectionState(id)],
                                  [providers EXCEPT ![id] = q],
                                  [po1 EXCEPT ![q].state = Connecting,
                                              ![q].handle = IF before THEN h ELSE @],
                                  openHandles)
    /\ UNCHANGED <<connections, persisted, secrets>>

\* The state a provider's connect sets when the network call resolved:
\* this.state = ConnectionState.Connected
StateAfterConnect_StillConnecting == Connecting

StateAfterConnect == Connected

\* connect(id) resumed with the network's answer: Connected and one
\* notification, or Error and the error rethrown.
ConnectNetwork(t, ok) ==
    /\ tasks[t].pc = "cn_network"
    /\ LET tk == tasks[t]
           q == tk.prov
           before == AssignsHandleBeforeConnect(provObj[q].type)
       IN  IF ok
           THEN /\ before \/ FreeHandles # {}
                /\ LET h == IF before THEN tk.h ELSE Lowest(FreeHandles)
                   IN  Commit(t, [tk EXCEPT !.pc = "return", !.fired = @ + 1],
                              providers,
                              [provObj EXCEPT ![q].state = StateAfterConnect,
                                              ![q].handle = IF before THEN @ ELSE h],
                              openHandles \union {h})
           ELSE Reject(t, tk, "provider", ProvidersAfterFailedConnect(tk.id),
                       [provObj EXCEPT ![q].state = StateAfterFailedConnect])
    /\ UNCHANGED <<connections, persisted, secrets>>

\* The synchronous start of disconnect(id) inside the call tk: with no
\* provider nothing happens; a provider without a handle is Disconnected at
\* once, deleted from the map and announced; otherwise the call suspends on
\* the handle's end()/close().  endPc is the pc in which the call awaits the
\* handle, afterPc the pc it has when disconnect(id) has returned.
DisconnectStart(tk, endPc, afterPc) ==
    LET id == tk.id
        q == providers[id]
    IN  IF q = 0
        THEN [tk |-> [tk EXCEPT !.pc = afterPc], provs |-> providers, po |-> provObj]
        ELSE IF provObj[q].handle = 0
        THEN [tk |-> [tk EXCEPT !.pc = afterPc, !.prov = q, !.hadProvider = TRUE,
                                !.called = TRUE, !.fired = @ + 1],
              provs |-> ProvidersAfterDisconnect(id),
              po |-> [provObj EXCEPT ![q].state = Disconnected]]
        ELSE [tk |-> [tk EXCEPT !.pc = endPc, !.prov = q, !.h = provObj[q].handle,
                                !.hadProvider = TRUE, !.called = TRUE],
              provs |-> providers, po |-> provObj]

\* disconnect(id) resumed when the handle was closed: the provider drops
\* its handle and is Disconnected, the manager deletes the map entry of the
\* id and fires.
DisconnectFinish(tk, afterPc) ==
    [tk |-> [tk EXCEPT !.pc = afterPc, !.h = 0, !.fired = @ + 1],
     provs |-> ProvidersAfterDisconnect(tk.id),
     po |-> [provObj EXCEPT ![tk.prov].handle = 0, ![tk.prov].state = Disconnected],
     opn |-> openHandles \ {tk.h}]

CallDisconnect(t, id) ==
    /\ FreeSlot(t)
    /\ LET r == DisconnectStart([IdleTask EXCEPT !.op = "disconnect", !.id = id],
                                "dc_end", "return")
       IN  Commit(t, r.tk, r.provs, r.po, openHandles)
    /\ UNCHANGED <<connections, persisted, secrets>>

DisconnectEnd(t, ok) ==
    /\ tasks[t].pc = "dc_end"
    /\ IF ok
       THEN LET r == DisconnectFinish(tasks[t], "return")
            IN  Commit(t, r.tk, r.provs, r.po, r.opn)
       ELSE Reject(t, tasks[t], "provider", providers, provObj)
    /\ UNCHANGED <<connections, persisted, secrets>>

\* removeConnection(id): disconnect(id) if the id has a provider, then the
\* password is deleted, the configuration is deleted and the list saved.
\* The command that calls it passes the id of a connection in the list.
CallRemove(t, id) ==
    /\ FreeSlot(t)
    /\ connections[id] # NoConfig
    /\ LET r == DisconnectStart([IdleTask EXCEPT !.op = "remove", !.id = id],
                                "rm_end", "rm_secret")
       IN  Commit(t, r.tk, r.provs, r.po, openHandles)
    /\ UNCHANGED <<connections, persisted, secrets>>

RemoveEnd(t, ok) ==
    /\ tasks[t].pc = "rm_end"
    /\ IF ok
       THEN LET r == DisconnectFinish(tasks[t], "rm_secret")
            IN  Commit(t, r.tk, r.provs, r.po, r.opn)
       ELSE Reject(t, tasks[t], "provider", providers, provObj)
    /\ UNCHANGED <<connections, persisted, secrets>>

\* removeConnection: this.connections.delete(connectionId)
ConnectionsAfterRemove_Kept(id) == connections

ConnectionsAfterRemove(id) == [connections EXCEPT ![id] = NoConfig]

\* saveConnections() takes the list from the map when it is called and
\* hands it to globalState.update: snap is the list on its way.
RemoveSecret(t, ok) ==
    /\ tasks[t].pc = "rm_secret"
    /\ LET tk == tasks[t]
       IN  IF ok
           THEN /\ secrets' = [secrets EXCEPT ![tk.id] = NoSecret]
                /\ connections' = ConnectionsAfterRemove(tk.id)
                /\ Commit(t, [tk EXCEPT !.pc = "rm_save", !.snap = connections'],
                          providers, provObj, openHandles)
           ELSE /\ Reject(t, tk, "secret", providers, provObj)
                /\ UNCHANGED <<connections, secrets>>
    /\ UNCHANGED persisted

\* The resumption after saveConnections(), of add, remove and update alike:
\* the notification is fired and the call returns.
Saved(t, pc, ok) ==
    /\ tasks[t].pc = pc
    /\ LET tk == tasks[t]
       IN  IF ok
           THEN /\ persisted' = tk.snap
                /\ Commit(t, [tk EXCEPT !.pc = "return", !.fired = @ + 1],
                          providers, provObj, openHandles)
           ELSE /\ Reject(t, tk, "persist", providers, provObj)
                /\ UNCHANGED persisted
    /\ UNCHANGED <<connections, secrets>>

RemoveSaved(t, ok) == Saved(t, "rm_save", ok)

\* The resumption after secretStorage.store(), of add and update: the
\* configuration is put in the map and the list is saved.
Stored(t, pc, savePc, ok) ==
    /\ tasks[t].pc = pc
    /\ LET tk == tasks[t]
       IN  IF ok
           THEN /\ secrets' = [secrets EXCEPT ![tk.id] = tk.pw]
                /\ connections' = [connections EXCEPT ![tk.id] = tk.cfg]
                /\ Commit(t, [tk EXCEPT !.pc = savePc, !.snap = connections'],
                          providers, provObj, openHandles)
           ELSE /\ Reject(t, tk, "secret", providers, provObj)
                /\ UNCHANGED <<connections, secrets>>
    /\ UNCHANGED persisted

\* addConnection(config, password): the id is generated for a configuration
\* that has none, so it is an id the map does not hold.
CallAdd(t, id, cfg, pw) ==
    /\ FreeSlot(t)
    /\ connections[id] = NoConfig
    /\ Commit(t, [IdleTask EXCEPT !.op = "add", !.id = id, !.pc = "add_store",
                                  !.cfg = cfg, !.pw = pw],
              providers, provObj, openHandles)
    /\ UNCHANGED <<connections, persisted, secrets>>

AddStored(t, ok) == Stored(t, "add_store", "add_save", ok)

AddSaved(t, ok) == Saved(t, "add_save", ok)

\* updateConnection(config, password?): the password is stored only when
\* one is given.  The command that calls it edits a connection in the list.
CallUpdate(t, id, cfg, pw) ==
    /\ FreeSlot(t)
    /\ connections[id] # NoConfig
    /\ LET tk == [IdleTask EXCEPT !.op = "update", !.id = id, !.cfg = cfg, !.pw = pw]
       IN  IF pw # NoSecret
           THEN /\ Commit(t, [tk EXCEPT !.pc = "up_store"], providers, provObj, openHandles)
                /\ UNCHANGED connections
           ELSE /\ connections' = [connections EXCEPT ![id] = cfg]
                /\ Commit(t, [tk EXCEPT !.pc = "up_save", !.snap = connections'],
                          providers, provObj, openHandles)
    /\ UNCHANGED <<persisted, secrets>>

UpdateStored(t, ok) == Stored(t, "up_store", "up_save", ok)

UpdateSaved(t, ok) == Saved(t, "up_save", ok)

(***************************************************************************)
(* QueryExecutor.executeQuery.  One call is followed from its entry to its *)
(* return.  Each await of provider.executeQuery is a step of its own; what *)
(* the provider does with the statement (return rows or a count, return a  *)
(* result that carries an error, throw) is the parameter of that step.     *)
(***************************************************************************)
\* The scripts handed to executeQuery: two statement texts and the separator.
QueryLexemes == { <<"a">>, <<"b">>, <<";">> }

RECURSIVE QueryLexemeSeqs(_)
QueryLexemeSeqs(n) ==
    IF n = 0 THEN { <<>> }
    ELSE LET shorter == QueryLexemeSeqs(n - 1)
         IN  shorter \union
             { Append(p, l) : p \in { q \in shorter : Len(q) = n - 1 }, l \in QueryLexemes }

QueryScriptsUpTo(n) == { Flatten(p) : p \in QueryLexemeSeqs(n) }

\* QueryResult: rowCount and error ("" when there is none).  The messages of
\* driver errors and of ensureConnected are not empty.
NoError == ""
ErrorMessages == { "failed" }

\* What provider.executeQuery does with one statement.
ProviderOutcomes ==
    { [thrown |-> FALSE, rowCount |-> n, error |-> NoError] : n \in 0..MaxRowCount }
        \union { [thrown |-> th, rowCount |-> 0, error |-> e] :
                    th \in BOOLEAN, e \in ErrorMessages }

\* The entry the batch loop's catch block builds from a thrown error.
ErrorResult_KeepsRowCount(message) == [rowCount |-> 1, error |-> message]

ErrorResult(message) == [rowCount |-> 0, error |-> message]

\* array.slice(start): a negative start counts from the end, and -0 is 0.
Slice(seq, start) ==
    LET from == IF start < 0 THEN (IF Len(seq) + start > 0 THEN Len(seq) + start ELSE 0)
                ELSE (IF start < Len(seq) THEN start ELSE Len(seq))
    IN  SubSeq(seq, from + 1, Len(seq))

\* addToHistory: push, then slice(-maxHistorySize) when the list is longer.
addToHistory(history, query, result) ==
    LET pushed == Append(history,
                         [query |-> query, success |-> (result.error = NoError),
                          error |-> result.error])
    IN  IF Len(pushed) > maxHistorySize
        THEN Slice(pushed, 0 - maxHistorySize)
        ELSE pushed

Issue(log, q) == Append(log, [query |-> q, outcome |-> "pending"])

Settle(log, out) ==
    [log EXCEPT ![Len(log)].outcome =
        IF out.thrown THEN "thrown"
        ELSE IF out.error # NoError THEN "failed" ELSE "returned"]

QEStart ==
    /\ qePc = "idle"
    /\ queries = <<>>
    /\ qi = 0
    /\ results = <<>>
    /\ hasError = FALSE
    /\ isCancellationRequested = FALSE
    /\ queryHistory = <<>>
    /\ maxHistorySize \in 0..MaxConfiguredHistory
    /\ issued = <<>>
    /\ shown = <<>>
    /\ notice = <<>>

\* executeQuery from its entry to its first await: the provider and the
\* configuration are looked up, the script is split, and the first
\* statement goes to the provider.
ExecuteQuery(query, type, hasProvider, hasConnection) ==
    /\ qePc = "idle"
    /\ IF ~hasProvider \/ ~hasConnection
       THEN /\ qePc' = "done"
            /\ notice' = << "error" >>
            /\ UNCHANGED <<queries, qi, issued>>
       ELSE LET split == splitQueries(query, type)
            IN  /\ queries' = split
                /\ IF Len(split) = 0
                   THEN /\ qePc' = "done"
                        /\ notice' = << "warning" >>
                        /\ UNCHANGED <<qi, issued>>
                   ELSE /\ qePc' = IF Len(split) = 1 THEN "single" ELSE "batch"
                        /\ qi' = 1
                        /\ issued' = Issue(issued, split[1])
                        /\ UNCHANGED notice
    /\ UNCHANGED <<results, hasError, isCancellationRequested, queryHistory,
                   maxHistorySize, shown>>

\* The single-statement path resumed: history, the panel and the message;
\* a throw of the provider goes to the outer catch.
SingleSettles(out) ==
    /\ qePc = "single"
    /\ issued' = Settle(issued, out)
    /\ qePc' = "done"
    /\ IF out.thrown
       THEN /\ notice' = << "error" >>
            /\ UNCHANGED <<queryHistory, shown>>
       ELSE LET result == [rowCount |-> out.rowCount, error |-> out.error]
            IN  /\ queryHistory' = addToHistory(queryHistory, queries[1], result)
                /\ shown' = << [query |-> queries[1], result |-> result] >>
                /\ notice' = << IF result.error # NoError THEN "error" ELSE "info" >>
    /\ UNCHANGED <<queries, qi, results, hasError, isCancellationRequested, maxHistorySize>>

\* The batch loop after statement i of n: i < queries.length, and the
\* check of token.isCancellationRequested at the top of the next iteration.
Continues_IgnoringCancellation(i, n, cancelled) == i < n

Continues(i, n, cancelled) == i < n /\ ~cancelled

\* The batch loop resumed with the outcome of statement qi: the entry is
\* pushed and recorded, and the loop goes on to the next statement unless
\* there is none or cancellation was requested; after the loop the combined
\* results are shown.
BatchSettles(out) ==
    /\ qePc = "batch"
    /\ LET q == queries[qi]
           result == IF out.thrown THEN ErrorResult(out.error)
                     ELSE [rowCount |-> out.rowCount, error |-> out.error]
           pushed == Append(results, [query |-> q, result |-> result])
           failed == hasError \/ out.thrown \/ result.error # NoError
           settled == Settle(issued, out)
       IN  /\ results' = pushed
           /\ hasError' = failed
           /\ queryHistory' = addToHistory(queryHistory, q, result)
           /\ IF Continues(qi, Len(queries), isCancellationRequested)
              THEN /\ qi' = qi + 1
                   /\ issued' = Issue(settled, queries[qi + 1])
                   /\ UNCHANGED <<qePc, shown, notice>>
              ELSE /\ issued' = settled
                   /\ qePc' = "done"
                   /\ shown' = pushed
                   /\ notice' = (IF qi < Len(queries) THEN << "cancelled" >> ELSE <<>>)
                                    \o << IF failed THEN "warning" ELSE "info" >>
                   /\ UNCHANGED qi
    /\ UNCHANGED <<queries, isCancellationRequested, maxHistorySize>>

\* The user presses Cancel on the progress notification of a batch.
Cancel ==
    /\ qePc = "batch"
    /\ ~isCancellationRequested
    /\ isCancellationRequested' = TRUE
    /\ UNCHANGED <<qePc, queries, qi, results, hasError, queryHistory,
                   maxHistorySize, issued, shown, notice>>

(***************************************************************************)
(* DataEditor.  Values carry their JavaScript type and their text; an      *)
(* object is the sequence of its properties in insertion order; SQL text   *)
(* is built character by character as the template literals build it.      *)
(***************************************************************************)
Null == [t |-> "null", v |-> <<>>]
Undefined == [t |-> "undefined", v |-> <<>>]
Num(digits) == [t |-> "number", v |-> digits]
Str(chars) == [t |-> "string", v |-> chars]
Bool(b) == [t |-> "boolean", v |-> IF b THEN <<"t">> ELSE <<"f">>]
\* A Date, carried as the text its toISOString() gives.
DateOf(iso) == [t |-> "date", v |-> iso]

\* row[key]
Get(row, key) ==
    IF \E k \in 1..Len(row) : row[k].k = key
    THEN row[CHOOSE k \in 1..Len(row) : row[k].k = key].v
    ELSE Undefined

\* Object.keys(row)
Keys(row) == [k \in 1..Len(row) |-> row[k].k]

\* parts.join(sep)
RECURSIVE Join(_, _)
Join(parts, sep) ==
    IF Len(parts) = 0 THEN <<>>
    ELSE IF Len(parts) = 1 THEN parts[1]
    ELSE parts[1] \o sep \o Join(Tail(parts), sep)

EscapeQuotes_None(chars) == chars

\* String(value).replace(/'/g, "''")
RECURSIVE EscapeQuotes(_)
EscapeQuotes(chars) ==
    IF chars = <<>> THEN <<>>
    ELSE (IF Head(chars) = "'" THEN <<"'", "'">> ELSE <<Head(chars)>>)
            \o EscapeQuotes(Tail(chars))

\* DataEditor.formatValue
formatValue(value, dbType) ==
    IF value.t \in {"null", "undefined"} THEN <<"N", "U", "L", "L">>
    ELSE IF value.t = "number" THEN value.v
    ELSE IF value.t = "boolean"
         THEN IF dbType = PostgreSQL
              THEN (IF value.v = <<"t">> THEN <<"T", "R", "U", "E">>
                                         ELSE <<"F", "A", "L", "S", "E">>)
              ELSE (IF value.v = <<"t">> THEN <<"1">> ELSE <<"0">>)
    ELSE IF value.t = "date" THEN <<"'">> \o value.v \o <<"'">>
    ELSE <<"'">> \o EscapeQuotes(value.v) \o <<"'">>

\* The grave accent (U+0060), written so because a string of this language
\* cannot hold the character itself.
Backtick == "U+0060"

\* DataEditor.quoteIdentifier
quoteIdentifier(identifier, dbType) ==
    IF dbType \in {MySQL, MariaDB} THEN <<Backtick>> \o identifier \o <<Backtick>>
    ELSE IF dbType = MSSQL THEN <<"[">> \o identifier \o <<"]">>
    ELSE <<"\"">> \o identifier \o <<"\"">>

\* DataEditor.getFullTableName
getFullTableName(tableInfo, dbType) ==
    Join((IF tableInfo.database # <<>>
             THEN << quoteIdentifier(tableInfo.database, dbType) >> ELSE <<>>)
         \o (IF tableInfo.schema # <<>>
             THEN << quoteIdentifier(tableInfo.schema, dbType) >> ELSE <<>>)
         \o << quoteIdentifier(tableInfo.tableName, dbType) >>,
         <<".">>)

\* column = value, as the SET list and the WHERE clause write it
Equated(column, value, dbType) ==
    quoteIdentifier(column, dbType) \o <<" ", "=", " ">> \o formatValue(value, dbType)

\* DataEditor.buildWhereClause
buildWhereClause(tableInfo, row, dbType) ==
    Join([k \in 1..Len(tableInfo.primaryKeys) |->
              Equated(tableInfo.primaryKeys[k], Get(row, tableInfo.primaryKeys[k]), dbType)],
         <<" ", "A", "N", "D", " ">>)

\* The table of the session, the baseline rows the panel passes to
\* generateSqlStatements, and the arguments the methods are called with.
ColId == <<"i", "d">>
ColName == <<"n", "a", "m", "e">>
KeyTempId == <<"_", "t", "e", "m", "p", "I", "d">>
DEColumns == { ColId, ColName }

TableInfos ==
    { [tableName |-> <<"t">>, schema |-> <<>>, database |-> <<>>,
       primaryKeys |-> << ColId >>],
      [tableName |-> <<"t">>, schema |-> <<"s">>, database |-> <<>>,
       primaryKeys |-> << ColId, ColName >>] }
NoTable == [tableName |-> <<>>, schema |-> <<>>, database |-> <<>>, primaryKeys |-> <<>>]

DETypes == {MySQL, PostgreSQL}

OriginalRows ==
    << << [k |-> ColId, v |-> Num(<<"1">>)], [k |-> ColName, v |-> Str(<<"A">>)] >>,
       << [k |-> ColId, v |-> Num(<<"2">>)], [k |-> ColName, v |-> Str(<<"B">>)] >> >>

\* Row indexes are zero-based; the last one is that of a row added in the
\* session, which has no baseline row.
RowIndexes == 0..Len(OriginalRows)
CellValues == { Str(<<"A">>), Str(<<"B">>) }
TempIds == { <<"n", "1">>, <<"n", "2">>  }

CellChanges ==
    [rowIndex : RowIndexes, column : DEColumns, oldValue : CellValues, newValue : CellValues]
NoChange == [rowIndex |-> 0, column |-> <<>>, oldValue |-> Undefined, newValue |-> Undefined]

\* handleAddRow: the non-key columns set to null, and the temporary id.
NewRowData(tempId) ==
    << [k |-> ColName, v |-> Null], [k |-> KeyTempId, v |-> Str(tempId)] >>
NewRows == { [tempId |-> Str(id), data |-> NewRowData(id)] : id \in TempIds }

\* handleDeleteRow: the row at the index as the panel shows it.
DeletedRows ==
    { [rowIndex |-> r, data |-> OriginalRows[r + 1]] : r \in 0..(Len(OriginalRows) - 1) }
        \union { [rowIndex |-> Len(OriginalRows), data |-> NewRowData(id)] : id \in TempIds }

\* rows[rowIndex], and whether it is a row rather than undefined
HasRow(rows, rowIndex) == rowIndex + 1 \in 1..Len(rows)
RowAt(rows, rowIndex) == rows[rowIndex + 1]

\* array.findIndex, one-based, over the outcomes of the test on each
\* element; 0 when nothing is found
FindIndex(hits) ==
    IF \E k \in 1..Len(hits) : hits[k]
    THEN CHOOSE k \in 1..Len(hits) : hits[k] /\ \A j \in 1..(k - 1) : ~hits[j]
    ELSE 0

\* array.splice(index, 1)
Splice(seq, index) == SubSeq(seq, 1, index - 1) \o SubSeq(seq, index + 1, Len(seq))

\* addCellChange on an existing entry: updates[existingIndex].newValue = change.newValue
Overwritten_WholeEntry(entry, change) == change

Overwritten(entry, change) == [entry EXCEPT !.newValue = change.newValue]

\* generateSqlStatements: the three loops push in this order.
Pushed_InRecordingOrder(deleteSql, updateSql, insertSql) == insertSql \o deleteSql \o updateSql

Pushed(deleteSql, updateSql, insertSql) == deleteSql \o updateSql \o insertSql

\* The keys of updatesByRow in insertion order: each row index once, in
\* the order of its first change.
RECURSIVE RowsOf(_)
RowsOf(changes) ==
    IF changes = <<>> THEN <<>>
    ELSE LET before == RowsOf(SubSeq(changes, 1, Len(changes) - 1))
             r == changes[Len(changes)].rowIndex
         IN  IF \E k \in 1..Len(before) : before[k] = r THEN before ELSE Append(before, r)

ChangesOf(changes, rowIndex) == SelectSeq(changes, LAMBDA c : c.rowIndex = rowIndex)

DeleteSql(del, tableInfo, rows, dbType) ==
    LET row == IF HasRow(rows, del.rowIndex) THEN RowAt(rows, del.rowIndex) ELSE del.data
    IN  <<"D", "E", "L", "E", "T", "E", " ", "F", "R", "O", "M", " ">>
            \o getFullTableName(tableInfo, dbType)
            \o <<" ", "W", "H", "E", "R", "E", " ">>
            \o buildWhereClause(tableInfo, row, dbType) \o <<";">>

UpdateSql(rowIndex, changes, tableInfo, rows, dbType) ==
    <<"U", "P", "D", "A", "T", "E", " ">>
        \o getFullTableName(tableInfo, dbType)
        \o <<" ", "S", "E", "T", " ">>
        \o Join([k \in 1..Len(changes) |->
                    Equated(changes[k].column, changes[k].newValue, dbType)],
                <<",", " ">>)
        \o <<" ", "W", "H", "E", "R", "E", " ">>
        \o buildWhereClause(tableInfo, RowAt(rows, rowIndex), dbType) \o <<";">>

InsertSql(insert, tableInfo, dbType) ==
    LET columns == SelectSeq(Keys(insert.data), LAMBDA k : Head(k) # "_")
    IN  <<"I", "N", "S", "E", "R", "T", " ", "I", "N", "T", "O", " ">>
            \o getFullTableName(tableInfo, dbType)
            \o <<" ", "(">>
            \o Join([k \in 1..Len(columns) |-> quoteIdentifier(columns[k], dbType)], <<",", " ">>)
            \o <<")", " ", "V", "A", "L", "U", "E", "S", " ", "(">>
            \o Join([k \in 1..Len(columns) |->
                        formatValue(Get(insert.data, columns[k]), dbType)], <<",", " ">>)
            \o <<")", ";">>

\* DataEditor.generateSqlStatements.  buildWhereClause reads row[pk] of the
\* row it is given: for a change whose rowIndex has no row in rows that is
\* a property of undefined, and the call throws.
generateSqlStatements(tableInfo, rows, dbType) ==
    LET rowIndexes == RowsOf(updates)
    IN  IF \E k \in 1..Len(rowIndexes) :
              ~HasRow(rows, rowIndexes[k]) /\ Len(tableInfo.primaryKeys) > 0
        THEN [threw |-> TRUE, statements |-> <<>>]
        ELSE [threw |-> FALSE,
              statements |->
                Pushed([k \in 1..Len(deletes) |-> DeleteSql(deletes[k], tableInfo, rows, dbType)],
                       [k \in 1..Len(rowIndexes) |->
                           UpdateSql(rowIndexes[k], ChangesOf(updates, rowIndexes[k]),
                                     tableInfo, rows, dbType)],
                       [k \in 1..Len(inserts) |-> InsertSql(inserts[k], tableInfo, dbType)])]

NoOut == [threw |-> FALSE, statements |-> <<>>]

\* The row argument of markRowForDeletion, when the call was another one.
NoRow == [rowIndex |-> 0, data |-> <<>>]

\* What executeChanges returns; errors holds the positions of the failed
\* statements, whose text and error text make up the message.
Result(success, message, affectedRows, errors) ==
    [success |-> success, message |-> message, affectedRows |-> affectedRows,
     errors |-> errors]
NoResult == Result(FALSE, "none", 0, <<>>)

Called(op, change, tableInfo, dbType, out) ==
    [op |-> op, change |-> change, row |-> NoRow, tableInfo |-> tableInfo,
     dbType |-> dbType, out |-> out, result |-> NoResult, hasProvider |-> FALSE]
NoCall == Called("none", NoChange, NoTable, MySQL, NoOut)

\* The locals of executeChanges; no call is suspended in NoSaving.  Of the
\* compiled statements the loop only sends one after the other to the
\* provider, whose outcome does not depend on the text here: the state
\* keeps statements.length and the position i of the statement sent.
Saving(pc, length, i, affectedRows, errors) ==
    [pc |-> pc, length |-> length, i |-> i, affectedRows |-> affectedRows,
     errors |-> errors]
NoSaving == Saving("idle", 0, 0, 0, <<>>)

DEStart ==
    /\ updates = <<>>
    /\ inserts = <<>>
    /\ deletes = <<>>
    /\ deRet = Called("none", NoChange, NoTable, MySQL, NoOut)
    /\ saving = NoSaving

PendingCount == Len(updates) + Len(inserts) + Len(deletes)

\* DataEditor.addCellChange
addCellChange(change) ==
    LET existingIndex ==
            FindIndex([k \in 1..Len(updates) |->
                          updates[k].rowIndex = change.rowIndex
                              /\ updates[k].column = change.column])
    IN  /\ existingIndex = 0 => PendingCount < MaxChanges
        /\ updates' =
             IF existingIndex > 0
             THEN LET written == [updates EXCEPT
                                    ![existingIndex] = Overwritten(@, change)]
                  IN  IF written[existingIndex].oldValue = change.newValue
                      THEN Splice(written, existingIndex)
                      ELSE written
             ELSE Append(updates, change)
        /\ deRet' = Called("addCellChange", change, NoTable, MySQL, NoOut)
        /\ UNCHANGED <<inserts, deletes, saving>>

\* DataEditor.addNewRow
addNewRow(row) ==
    /\ PendingCount < MaxChanges
    /\ inserts' = Append(inserts, row)
    /\ deRet' = Called("addNewRow", NoChange, NoTable, MySQL, NoOut)
    /\ UNCHANGED <<updates, deletes, saving>>

\* markRowForDeletion: if (insertIndex >= 0), insertIndex one-based here
IsPendingInsert_Never(insertIndex) == FALSE

IsPendingInsert(insertIndex) == insertIndex > 0

\* DataEditor.markRowForDeletion
markRowForDeletion(row) ==
    LET insertIndex ==
            FindIndex([k \in 1..Len(inserts) |->
                          inserts[k].tempId = Get(row.data, KeyTempId)])
    IN  /\ ~IsPendingInsert(insertIndex) => PendingCount < MaxChanges
        /\ IF IsPendingInsert(insertIndex)
           THEN /\ inserts' = Splice(inserts, insertIndex)
                /\ UNCHANGED deletes
           ELSE /\ deletes' = Append(deletes, row)
                /\ UNCHANGED inserts
        /\ deRet' = [Called("markRowForDeletion", NoChange, NoTable, MySQL, NoOut)
                        EXCEPT !.row = row]
        /\ UNCHANGED <<updates, saving>>

\* DataEditor.clearChanges
hasChanges_UpdatesOnly == Len(updates) > 0

\* DataEditor.hasChanges
hasChanges == Len(updates) > 0 \/ Len(inserts) > 0 \/ Len(deletes) > 0

\* DataEditor.clearChanges
clearChanges ==
    /\ updates' = <<>>
    /\ inserts' = <<>>
    /\ deletes' = <<>>
    /\ deRet' = Called("clearChanges", NoChange, NoTable, MySQL, NoOut)
    /\ UNCHANGED saving

\* A call of generateSqlStatements(tableInfo, rows) with the baseline rows;
\* dbType is that of the provider the manager holds at the call.
GenerateSqlStatements(tableInfo, dbType) ==
    /\ deRet' = Called("generateSqlStatements", NoChange, tableInfo, dbType,
                       generateSqlStatements(tableInfo, OriginalRows, dbType))
    /\ UNCHANGED <<updates, inserts, deletes, saving>>

\* What executeChanges does once the loop is over: if (errors.length > 0)
Finished_ClearsAlways(errors) == TRUE

Finished(errors) == Len(errors) = 0

\* DataEditor.executeChanges up to its first await.  The dialect is that
\* of the provider the manager holds, MySQL when it holds none.
executeChanges(tableInfo, type, hasProvider) ==
    LET dbType == IF hasProvider THEN type ELSE MySQL
        out == generateSqlStatements(tableInfo, OriginalRows, dbType)
        returned == [Called("executeChanges", NoChange, tableInfo, dbType, out)
                        EXCEPT !.hasProvider = hasProvider]
    IN  /\ saving.pc = "idle"
        /\ hasProvider \/ type = MySQL
        /\ IF out.threw
           THEN /\ deRet' = returned
                /\ UNCHANGED saving
           ELSE IF Len(out.statements) = 0
           THEN /\ deRet' = [returned EXCEPT
                                !.result = Result(TRUE, "No changes to save", 0, <<>>)]
                /\ UNCHANGED saving
           ELSE IF ~hasProvider
           THEN /\ deRet' = [returned EXCEPT
                                !.result = Result(FALSE, "Connection not available", 0, <<>>)]
                /\ UNCHANGED saving
           ELSE /\ deRet' = NoCall
                /\ saving' = Saving("awaiting", Len(out.statements), 1, 0, <<>>)
        /\ UNCHANGED <<updates, inserts, deletes>>

\* executeChanges after provider.executeQuery(sql, database) returned or
\* threw for statement i: the next statement, or the end of the call.
executeChangesSettles(outcome) ==
    LET failed == outcome.thrown \/ outcome.error # NoError
        errors == IF failed THEN Append(saving.errors, saving.i) ELSE saving.errors
        affectedRows == IF failed THEN saving.affectedRows
                        ELSE saving.affectedRows + outcome.rowCount
        returned == [Called("executeChanges", NoChange, NoTable, MySQL, NoOut)
                        EXCEPT !.hasProvider = TRUE]
    IN  /\ saving.pc = "awaiting"
        /\ IF saving.i < saving.length
           THEN /\ saving' = [saving EXCEPT !.i = @ + 1, !.affectedRows = affectedRows,
                                            !.errors = errors]
                /\ deRet' = NoCall
                /\ UNCHANGED <<updates, inserts, deletes>>
           ELSE /\ saving' = NoSaving
                /\ IF Finished(errors)
                   THEN /\ updates' = <<>>
                        /\ inserts' = <<>>
                        /\ deletes' = <<>>
                        /\ deRet' = [returned EXCEPT
                                        !.result = Result(TRUE, "Successfully saved",
                                                          affectedRows, errors)]
                   ELSE /\ deRet' = [returned EXCEPT
                                        !.result = Result(FALSE, "Some changes failed",
                                                          affectedRows, errors)]
                        /\ UNCHANGED <<updates, inserts, deletes>>

\* ConnectionManager.testConnection(config, password): createProvider and
\* provider.testConnection inside one try block, whose catch returns false.
\* The stage is where the test ended: at an unsupported dialect tag, at a
\* throw of provider.testConnection, at its false, or at its true.
UnsupportedType == "sqlite"
TestOutcomes == {"true", "false", "threw"}

TestResult_Rethrows(stage) == IF stage = "done" THEN "true" ELSE "error"

TestResult(stage) == IF stage = "done" THEN "true" ELSE "false"

\* testConnection has no onDidChangeConnectionsEmitter.fire().
FiredByTest_Once(stage) == 1

FiredByTest(stage) == 0

testConnection(type, outcome) ==
    LET stage == IF type \notin DatabaseType THEN "unsupported"
                 ELSE IF outcome = "threw" THEN "threw"
                 ELSE IF outcome = "false" THEN "refused" ELSE "done"
    IN  /\ ret' = [NoRet EXCEPT !.op = "testConnection", !.result = TestResult(stage),
                                !.stage = stage, !.fired = FiredByTest(stage)]
        /\ UNCHANGED <<connections, persisted, secrets, providers, provObj,
                       openHandles, tasks>>

(***************************************************************************)
(* A provider instance: its lifecycle calls and its metadata and query     *)
(* calls.  The handle is this.client, this.pool or this.connection.        *)
(***************************************************************************)
ProviderTypes == DatabaseType
ProviderOps == {"getDatabases", "getTables", "getColumns", "executeQuery"}

\* MongoDBProvider.getTables and getColumns return [] and look at nothing.
ReturnsEmpty(type, op) == type = MongoDB /\ op \in {"getTables", "getColumns"}

\* ensureConnected does not throw
PassesGuard(p) == p.handle /\ p.state = Connected

\* What a call returned: outcome "returned" (rows), "error" (a QueryResult
\* with error set) or "threw"; whether the result has rows, its rowCount,
\* the state of the provider at the call and whether the handle was called.
ProviderReturn(op, p, outcome, error, rows, rowCount, called) ==
    [op |-> op, type |-> p.type, state |-> p.state, outcome |-> outcome,
     error |-> error, rows |-> rows, rowCount |-> rowCount, called |-> called]
NoProviderReturn ==
    [op |-> "none", type |-> "none", state |-> Disconnected, outcome |-> "none",
     error |-> "none", rows |-> FALSE, rowCount |-> 0, called |-> FALSE]

pvStart ==
    /\ pv \in { [type |-> type, state |-> Disconnected, handle |-> FALSE, pc |-> "idle"] :
                    type \in ProviderTypes }
    /\ pvRet = NoProviderReturn

\* connect(config, password) to its await of the network
pvConnect ==
    /\ pv.pc = "idle"
    /\ pv' = [pv EXCEPT !.state = Connecting, !.pc = "connecting",
                        !.handle = IF AssignsHandleBeforeConnect(pv.type) THEN TRUE ELSE @]
    /\ pvRet' = NoProviderReturn

\* connect resumed: Connected with the handle, or Error and the rethrow
pvConnectEnd(ok) ==
    /\ pv.pc = "connecting"
    /\ pv' = IF ok THEN [pv EXCEPT !.state = Connected, !.handle = TRUE, !.pc = "idle"]
             ELSE [pv EXCEPT !.state = Error, !.pc = "idle"]
    /\ pvRet' = NoProviderReturn

\* disconnect() to its await of the close, or to its end without a handle
pvDisconnect ==
    /\ pv.pc = "idle"
    /\ pv' = IF pv.handle THEN [pv EXCEPT !.pc = "disconnecting"]
             ELSE [pv EXCEPT !.state = Disconnected]
    /\ pvRet' = NoProviderReturn

\* disconnect resumed: the handle is dropped, or the close threw
pvDisconnectEnd(ok) ==
    /\ pv.pc = "disconnecting"
    /\ pv' = IF ok THEN [pv EXCEPT !.state = Disconnected, !.handle = FALSE, !.pc = "idle"]
             ELSE [pv EXCEPT !.pc = "idle"]
    /\ pvRet' = NoProviderReturn

\* getDatabases, getTables, getColumns or executeQuery, from the call to
\* its return; driverOk is what the call on the handle does, and blank
\* says that cleanQuery leaves nothing of the statement (MySQLProvider).
pvCall(op, driverOk, blank) ==
    /\ pvRet' =
         IF ReturnsEmpty(pv.type, op)
         THEN ProviderReturn(op, pv, "returned", "none", TRUE, 0, FALSE)
         ELSE IF ~PassesGuard(pv)
         THEN ProviderReturn(op, pv, "threw", "not connected", FALSE, 0, FALSE)
         ELSE IF op = "executeQuery" /\ pv.type \in {MySQL, MariaDB} /\ blank
         THEN ProviderReturn(op, pv, "error", "no valid query", FALSE, 0, FALSE)
         ELSE IF driverOk
         THEN ProviderReturn(op, pv, "returned", "none", TRUE, 1, TRUE)
         ELSE IF op = "executeQuery"
         THEN ProviderReturn(op, pv, "error", "driver", FALSE, 0, TRUE)
         ELSE ProviderReturn(op, pv, "threw", "driver", FALSE, 0, TRUE)
    /\ UNCHANGED pv

\* The values formatValue is called with: null, undefined, numbers,
\* booleans, a date, every string of at most MaxTextLength characters and
\* the name O'Brien.
OBrien == <<"O", "'", "B", "r", "i", "e", "n">>
TextChars == {"O", "'", "a"}
TextsUpTo(n) == UNION { [1..k -> TextChars] : k \in 0..n }
FormatValues(n) ==
    {Null, Undefined, Bool(TRUE), Bool(FALSE), Str(OBrien)}
    \union { Num(d) : d \in {<<"4", "2">>, <<"-", "1">>, <<"0", ".", "5">>} }
    \union { DateOf(<<"2", "0", "2", "4", "-", "0", "1", "-", "0", "2", "T",
                      "0", "3", ":", "0", "4", ":", "0", "5", ".", "0", "0", "0", "Z">>) }
    \union { Str(chars) : chars \in TextsUpTo(n) }

\* A call of formatValue, from the compilation of a statement.
formatValueCall(value, dbType) ==
    /\ deRet' = Called("formatValue", [NoChange EXCEPT !.newValue = value], NoTable, dbType,
                       [threw |-> FALSE, statements |-> << formatValue(value, dbType) >>])
    /\ UNCHANGED <<updates, inserts, deletes, saving>>

(***************************************************************************)
(* Edit mode: DataEditor.parseQueryForTable and getTableMetadata, and the  *)
(* panel's enableEditMode that calls them.  The regular expressions are    *)
(* computed on the characters of the query.                                *)
(***************************************************************************)
\* String.prototype.toLowerCase, on the letters the model's queries have.
LowerChar(c) ==
    CASE c = "S" -> "s" [] c = "E" -> "e" [] c = "L" -> "l" [] c = "C" -> "c"
      [] c = "T" -> "t" [] c = "J" -> "j" [] c = "O" -> "o" [] c = "N" -> "n"
      [] c = "P" -> "p" [] c = "R" -> "r" [] c = "D" -> "d"
      [] OTHER -> c

toLowerCase(s) == [i \in 1..Len(s) |-> LowerChar(s[i])]

\* \w and \s of a regular expression, as far as the alphabet has them.
WordChars ==
    {"a", "b", "c", "d", "e", "f", "g", "i", "j", "l", "m", "n", "o", "p", "r",
     "s", "t", "u", "x", "y", "S", "E", "L", "C", "T", "J", "O", "N", "_",
     "0", "1", "2"}
IsWordChar(c) == c \in WordChars
IsSpace(c) == c \in Whitespace

\* \b before position i: exactly one of the characters on its two sides is
\* a word character (the outside of the text is not).
WordBoundary(s, i) == IsWordChar(CharAt(s, i - 1)) # IsWordChar(CharAt(s, i))

\* The literal word, compared without regard to case, at position i.
LiteralAt(s, i, word) ==
    /\ i >= 1
    /\ i + Len(word) - 1 <= Len(s)
    /\ toLowerCase(SubSeq(s, i, i + Len(word) - 1)) = word

\* \s+ from position i to position j - 1
SpacesBetween(s, i, j) == j > i /\ \A k \in i..(j - 1) : IsSpace(CharAt(s, k))

\* /\bword\b/i.test(s)
TestWord(s, word) ==
    \E i \in 1..Len(s) :
        WordBoundary(s, i) /\ LiteralAt(s, i, word) /\ WordBoundary(s, i + Len(word))

\* /\bfirst\s+second\b/i.test(s)
TestWords(s, first, second) ==
    \E i \in 1..Len(s) :
        /\ WordBoundary(s, i) /\ LiteralAt(s, i, first)
        /\ \E j \in (i + Len(first) + 1)..Len(s) :
              /\ SpacesBetween(s, i + Len(first), j)
              /\ LiteralAt(s, j, second)
              /\ WordBoundary(s, j + Len(second))

\* (s.match(/word/gi) || []).length
CountLiteral(s, word) == Cardinality({ i \in 1..Len(s) : LiteralAt(s, i, word) })

\* s.startsWith(word)
StartsWith(s, word) == Len(s) >= Len(word) /\ SubSeq(s, 1, Len(word)) = word

KwSelect == <<"s", "e", "l", "e", "c", "t">>
KwJoin == <<"j", "o", "i", "n">>
KwUnion == <<"u", "n", "i", "o", "n">>
KwGroup == <<"g", "r", "o", "u", "p">>
KwBy == <<"b", "y">>
KwFrom == <<"f", "r", "o", "m">>

\* The characters [`"[\]] that may enclose the name, and [\w.] of the name.
NameQuotes == {Backtick, "\"", "[", "]"}
IsNameChar(c) == IsWordChar(c) \/ c = "."

\* The end (exclusive) of the longest run of name characters from i.
RECURSIVE NameEnd(_, _)
NameEnd(s, i) == IF IsNameChar(CharAt(s, i)) THEN NameEnd(s, i + 1) ELSE i

\* The capture of /\bfrom\s+([`"[\]]?[\w.]+[`"\]]?)/i when "from" is matched
\* at i and the white space ends before j: an optional opening quote, the
\* name, an optional closing quote.  <<>> when there is no match here.
FromCapture(s, i, j) ==
    LET start == IF CharAt(s, j) \in NameQuotes THEN j + 1 ELSE j
        end == NameEnd(s, start)
        close == IF CharAt(s, end) \in (NameQuotes \ {"["}) THEN end + 1 ELSE end
    IN  IF end > start THEN SubSeq(s, j, close - 1) ELSE <<>>

\* The positions at which the FROM expression matches, with its capture.
FromMatches(s) ==
    { m \in [i : 1..Len(s), j : 1..Len(s)] :
        /\ WordBoundary(s, m.i) /\ LiteralAt(s, m.i, KwFrom)
        /\ SpacesBetween(s, m.i + Len(KwFrom), m.j)
        /\ ~IsSpace(CharAt(s, m.j))
        /\ FromCapture(s, m.i, m.j) # <<>> }

\* query.match(...): the leftmost match, [1] of it; <<>> for no match.
fromMatch(s) ==
    IF FromMatches(s) = {} THEN <<>>
    ELSE LET m == CHOOSE m \in FromMatches(s) : \A o \in FromMatches(s) : m.i <= o.i
         IN  FromCapture(s, m.i, m.j)

\* fromMatch[1].replace(/[`"[\]]/g, '')
RECURSIVE StripNameQuotes(_)
StripNameQuotes(s) ==
    IF s = <<>> THEN <<>>
    ELSE (IF Head(s) \in NameQuotes THEN <<>> ELSE <<Head(s)>>) \o StripNameQuotes(Tail(s))

\* tableName.split('.')
RECURSIVE SplitDots(_, _)
SplitDots(s, part) ==
    IF s = <<>> THEN <<part>>
    ELSE IF Head(s) = "." THEN <<part>> \o SplitDots(Tail(s), <<>>)
    ELSE SplitDots(Tail(s), Append(part, Head(s)))

NoEditError == "none"
NotEditable(editError) ==
    [tableName |-> <<>>, schema |-> <<>>, database |-> <<>>, primaryKeys |-> <<>>,
     columns |-> <<>>, isEditable |-> FALSE, editError |-> editError]

\* DataEditor.parseQueryForTable
parseQueryForTable(query) ==
    LET normalizedQuery == toLowerCase(Trim(query))
        tableName == StripNameQuotes(fromMatch(query))
        parts == SplitDots(tableName, <<>>)
    IN  IF ~StartsWith(normalizedQuery, KwSelect)
        THEN NotEditable("Only SELECT queries can be edited")
        ELSE IF TestWord(query, KwJoin)
        THEN NotEditable("Queries with JOINs cannot be edited directly")
        ELSE IF CountLiteral(query, KwSelect) > 1
        THEN NotEditable("Queries with subqueries cannot be edited directly")
        ELSE IF TestWord(query, KwUnion)
        THEN NotEditable("UNION queries cannot be edited directly")
        ELSE IF TestWords(query, KwGroup, KwBy)
        THEN NotEditable("Aggregated queries cannot be edited")
        ELSE IF fromMatch(query) = <<>>
        THEN NotEditable("Could not identify table name")
        ELSE [tableName |-> IF Len(parts) \in {2, 3} THEN parts[Len(parts)] ELSE tableName,
              schema |-> IF Len(parts) \in {2, 3} THEN parts[Len(parts) - 1] ELSE <<>>,
              database |-> IF Len(parts) = 3 THEN parts[1] ELSE <<>>,
              primaryKeys |-> <<>>, columns |-> <<>>,
              isEditable |-> TRUE, editError |-> NoEditError]

\* The columns provider.getColumns may return: name and isPrimaryKey.
Column(name, isPrimaryKey) == [name |-> name, isPrimaryKey |-> isPrimaryKey]
ColumnLists ==
    {<<>>}
    \union { <<Column(ColId, a)>> : a \in BOOLEAN }
    \union { <<Column(ColId, a), Column(ColName, b)>> : a, b \in BOOLEAN }

\* columns.filter(col => col.isPrimaryKey).map(col => col.name)
RECURSIVE PrimaryKeyNames(_)
PrimaryKeyNames(columns) ==
    IF columns = <<>> THEN <<>>
    ELSE (IF Head(columns).isPrimaryKey THEN <<Head(columns).name>> ELSE <<>>)
            \o PrimaryKeyNames(Tail(columns))

\* The test that decides between the two returns after the fetch.
HasNoPrimaryKey_Never(primaryKeys) == FALSE

HasNoPrimaryKey(primaryKeys) == Len(primaryKeys) = 0

\* DataEditor.getTableMetadata: hasProvider is what getProvider returned,
\* threw whether provider.getColumns rejected, columns what it returned.
\* The message of the caught error is left out of editError.
getTableMetadata(tableInfo, hasProvider, threw, columns) ==
    LET primaryKeys == PrimaryKeyNames(columns)
    IN  IF ~hasProvider
        THEN [tableInfo EXCEPT !.isEditable = FALSE, !.editError = "Connection not available"]
        ELSE IF threw
        THEN [tableInfo EXCEPT !.isEditable = FALSE, !.editError = "Failed to get table info"]
        ELSE IF HasNoPrimaryKey(primaryKeys)
        THEN [tableInfo EXCEPT !.columns = columns, !.isEditable = FALSE,
                               !.editError = "Table has no primary key - editing not supported"]
        ELSE [tableInfo EXCEPT !.columns = columns, !.primaryKeys = primaryKeys,
                               !.isEditable = TRUE]

\* The queries edit mode is asked for: every concatenation of at most
\* MaxEditLexemes lexemes.
EditLexemes ==
    { <<"S", "E", "L", "E", "C", "T", " ">>,
      <<"f", "r", "o", "m", " ", "t", " ">>,
      <<"J", "o", "i", "n", " ">>,
      <<"u", "n", "i", "o", "n", " ">>,
      <<"g", "r", "o", "u", "p", " ", "b", "y", " ">>,
      <<"'">>,
      <<"x">> }

EditLexemeSeqs(n) == UNION { [1..k -> EditLexemes] : k \in 0..n }
EditQueriesUpTo(n) == { Flatten(p) : p \in EditLexemeSeqs(n) }

\* What the last getTableMetadata call was given.
MetadataCall(called, hasProvider, threw, columns) ==
    [called |-> called, hasProvider |-> hasProvider, threw |-> threw, columns |-> columns]
NoMetadataCall == MetadataCall(FALSE, FALSE, FALSE, <<>>)

\* The panel before edit mode is asked for: editState.enabled is false.
editStart ==
    edit = [pc |-> "idle", query |-> <<>>, parsed |-> NotEditable(NoEditError),
            tableInfo |-> NotEditable(NoEditError), call |-> NoMetadataCall,
            enabled |-> FALSE, warning |-> NoEditError]

\* ResultsPanel.enableEditMode, to the await of getTableMetadata: a query
\* that is not editable is answered with a warning and edit mode stays off.
enableEditMode(query) ==
    /\ edit.pc = "idle"
    /\ LET tableInfo == parseQueryForTable(query)
       IN  edit' = [edit EXCEPT !.query = query, !.parsed = tableInfo,
                                !.tableInfo = tableInfo,
                                !.pc = IF tableInfo.isEditable THEN "metadata" ELSE "done",
                                !.warning = tableInfo.editError]

\* enableEditMode resumed with the table info getTableMetadata returned.
enableEditModeSettles(hasProvider, threw, columns) ==
    /\ edit.pc = "metadata"
    /\ LET tableInfo == getTableMetadata(edit.parsed, hasProvider, threw, columns)
       IN  edit' = [edit EXCEPT !.tableInfo = tableInfo, !.pc = "done",
                                !.call = MetadataCall(TRUE, hasProvider, threw, columns),
                                !.enabled = tableInfo.isEditable,
                                !.warning = tableInfo.editError]

\* ResultsPanel.updateResults: a new result turns edit mode off.
updateResults ==
    /\ edit.pc = "done"
    /\ edit' = [pc |-> "idle", query |-> <<>>, parsed |-> NotEditable(NoEditError),
                tableInfo |-> NotEditable(NoEditError), call |-> NoMetadataCall,
                enabled |-> FALSE, warning |-> NoEditError]

(***************************************************************************)
(* SqlCompletionProvider: the schema cache.  Time is counted in minutes.   *)
(* An update pass runs from its call to its first await of the provider    *)
(* and then from one await to the next; the manager's notification runs    *)
(* its listeners, invalidateCache among them, before fire() returns.       *)
(***************************************************************************)
\* private cacheTimeout = 5 * 60 * 1000, in minutes
cacheTimeout == 5

\* The connections getAllConnections() returns, in the order of the map,
\* and their dialects.
CacheConns == <<"c1", "c2", "c3">>
CacheIds == {"c1", "c2", "c3"}
CacheType(id) == IF id = "c2" THEN MongoDB ELSE IF id = "c1" THEN MySQL ELSE PostgreSQL

\* An entry of schemaCache; lastUpdated is only read when cached.  early
\* records, for the claims, that a notification arrived between the first
\* provider call of the fetch and the storing of the snapshot.
Snapshot(lastUpdated) == [cached |-> TRUE, lastUpdated |-> lastUpdated, early |-> FALSE]
NoSnapshot == [cached |-> FALSE, lastUpdated |-> 0, early |-> FALSE]

\* cached && (Date.now() - cached.lastUpdated.getTime()) < this.cacheTimeout
IsFresh_Inclusive(entry, clock) == entry.cached /\ (clock - entry.lastUpdated) <= cacheTimeout

IsFresh(entry, clock) == entry.cached /\ (clock - entry.lastUpdated) < cacheTimeout

\* The loop's three tests before the fetch: no provider, the document
\* store, a snapshot still valid.
Skips(id, live, cache, clock) ==
    \/ ~live[id]
    \/ CacheType(id) = MongoDB
    \/ IsFresh(cache[id], clock)

\* The position in CacheConns of the first connection from position i on
\* that the loop does not skip; Len(CacheConns) + 1 when it skips them all.
RECURSIVE NextFetch(_, _, _, _)
NextFetch(i, live, cache, clock) ==
    IF i > Len(CacheConns) THEN i
    ELSE IF Skips(CacheConns[i], live, cache, clock) THEN NextFetch(i + 1, live, cache, clock)
    ELSE i

\* What a step of the cache did: the method or resumption, the positions
\* the loop went through (after from, up to and including to), the
\* connection a provider method was called on and the entry it had then,
\* and the connections whose snapshots a notification dropped.
Passed(op, from, to, called, entry) ==
    [op |-> op, from |-> from, to |-> to, called |-> called, entry |-> entry,
     dropped |-> {}]
NoPassed == Passed("none", 0, 0, "none", NoSnapshot)

\* A pass: where it is suspended, the position of the connection it is
\* fetching, and whether a notification arrived since that fetch began.
NoPass == [pc |-> "idle", i |-> 0, notified |-> FALSE]
PassIds == 1..MaxPasses

scStart ==
    /\ scLive = [id \in CacheIds |-> FALSE]
    /\ schemaCache = [id \in CacheIds |-> NoSnapshot]
    /\ now = 0
    /\ passes = [p \in PassIds |-> NoPass]
    /\ scRet = NoPassed

\* A call takes the lowest pass slot that is free.
FreePass(p) == passes[p].pc = "idle" /\ \A o \in PassIds : o < p => passes[o].pc # "idle"

\* The loop of updateSchemaCache in pass p after position from, to its next
\* await of provider.getDatabases() or to its end, with the cache as it is
\* then.
Loop(p, op, from, cache) ==
    LET to == NextFetch(from + 1, scLive, cache, now)
    IN  /\ schemaCache' = cache
        /\ IF to > Len(CacheConns)
           THEN /\ passes' = [passes EXCEPT ![p] = NoPass]
                /\ scRet' = Passed(op, from, Len(CacheConns), "none", NoSnapshot)
           ELSE /\ passes' = [passes EXCEPT ![p] = [pc |-> "databases", i |-> to,
                                                     notified |-> FALSE]]
                /\ scRet' = Passed(op, from, to, CacheConns[to], cache[CacheConns[to]])
        /\ UNCHANGED <<scLive, now>>

\* this.schemaCache.set(conn.id, {..., lastUpdated: new Date()})
SnapshotStored(cache, id, early) ==
    [cache EXCEPT ![id] = [Snapshot(now) EXCEPT !.early = early]]

\* updateSchemaCache(), called by provideCompletionItems.
updateSchemaCache(p) ==
    /\ FreePass(p)
    /\ Loop(p, "updateSchemaCache", 0, schemaCache)

\* refreshCache(connectionId): the entry is deleted and the pass run.
refreshCache(p, id) ==
    /\ FreePass(p)
    /\ Loop(p, "refreshCache", 0, [schemaCache EXCEPT ![id] = NoSnapshot])

\* The outcomes of a metadata call of the provider: it throws, returns an
\* empty list, or returns one entry.
FetchOutcomes == {"threw", "none", "some"}

\* The next provider call of pass p, on the connection it is fetching.
Fetches(p, op, pc) ==
    /\ passes' = [passes EXCEPT ![p].pc = pc]
    /\ scRet' = Passed(op, passes[p].i, passes[p].i, CacheConns[passes[p].i],
                       schemaCache[CacheConns[passes[p].i]])
    /\ UNCHANGED <<scLive, schemaCache, now>>

\* Pass p resumed after provider.getDatabases(): the error is caught and the
\* loop goes on, or the snapshot of a connection without databases is
\* stored, or the tables of the database are asked for.
databasesSettle(p, outcome) ==
    /\ passes[p].pc = "databases"
    /\ IF outcome = "threw" THEN Loop(p, "failed", passes[p].i, schemaCache)
       ELSE IF outcome = "none"
       THEN Loop(p, "stored", passes[p].i, SnapshotStored(schemaCache, CacheConns[passes[p].i],
                                                              passes[p].notified))
       ELSE Fetches(p, "getTables", "tables")

\* Pass p resumed after provider.getTables().
tablesSettle(p, outcome) ==
    /\ passes[p].pc = "tables"
    /\ IF outcome = "threw" THEN Loop(p, "failed", passes[p].i, schemaCache)
       ELSE IF outcome = "none"
       THEN Loop(p, "stored", passes[p].i, SnapshotStored(schemaCache, CacheConns[passes[p].i],
                                                              passes[p].notified))
       ELSE Fetches(p, "getColumns", "columns")

\* Pass p resumed after provider.getColumns(), whose failure only empties
\* the table's column list: the snapshot is stored with the time it is now,
\* and the loop goes on.
columnsSettle(p) ==
    /\ passes[p].pc = "columns"
    /\ Loop(p, "stored", passes[p].i, SnapshotStored(schemaCache, CacheConns[passes[p].i],
                                                              passes[p].notified))

\* What the manager's notification does to the cache: the listener the
\* constructor registered runs invalidateCache.
Invalidated_NoListener(cache) == cache

Invalidated(cache) == [id \in CacheIds |-> NoSnapshot]

\* A "connections changed" notification of the manager, fired after a
\* connect or a disconnect that changed which connections have a provider.
connectionsChanged(live) ==
    /\ scLive' = live
    /\ schemaCache' = Invalidated(schemaCache)
    /\ scRet' = [Passed("onDidChangeConnections", 0, 0, "none", NoSnapshot)
                    EXCEPT !.dropped = { id \in CacheIds : schemaCache[id].cached }]
    /\ passes' = [p \in PassIds |->
                    IF passes[p].pc = "idle" THEN passes[p]
                    ELSE [passes[p] EXCEPT !.notified = TRUE]]
    /\ UNCHANGED now

\* A minute passes.
Tick ==
    /\ now < MaxClock
    /\ now' = now + 1
    /\ scRet' = NoPassed
    /\ UNCHANGED <<scLive, schemaCache, passes>>

(***************************************************************************)
(* QueryExecutor.executeActiveEditorQuery: the connection and the database *)
(* named in the text of the editor, and the choice of the connection the   *)
(* query is sent to.                                                       *)
(***************************************************************************)
\* ^ and $ of a regular expression with the m flag.
LineStart(text, i) == i = 1 \/ CharAt(text, i - 1) = "\n"
LineEnd(text, i) == i = Len(text) + 1 \/ CharAt(text, i) = "\n"

\* The end (exclusive) of the longest run of \s from i.
RECURSIVE SpacesEnd(_, _)
SpacesEnd(text, i) == IF IsSpace(CharAt(text, i)) THEN SpacesEnd(text, i + 1) ELSE i

\* The first end of line at or after i.
RECURSIVE EndOfLine(_, _)
EndOfLine(text, i) == IF LineEnd(text, i) THEN i ELSE EndOfLine(text, i + 1)

\* Where (.+?)$ can begin after the \s* that starts at from: at a character
\* of the line, the white space given back by \s* included.
CaptureStarts(text, from) ==
    { j \in from..SpacesEnd(text, from) : j <= Len(text) /\ text[j] # "\n" }

\* The match of /^--\s*key\s*(.+?)$/im that begins at i: its capture, as a
\* one-element sequence, or <<>> when the expression does not match there.
\* \s* takes all the white space it can, and (.+?) ends at the first end of
\* line.
HeaderMatchAt(text, i, key) ==
    LET afterDashes == SpacesEnd(text, i + 2)
        afterKey == afterDashes + Len(key)
        starts == CaptureStarts(text, afterKey)
        start == CHOOSE j \in starts : \A o \in starts : o <= j
    IN  IF /\ LineStart(text, i)
           /\ CharAt(text, i) = "-" /\ CharAt(text, i + 1) = "-"
           /\ LiteralAt(text, afterDashes, key)
           /\ starts # {}
        THEN << SubSeq(text, start, EndOfLine(text, start + 1) - 1) >>
        ELSE <<>>

\* text.match(...): the capture of the leftmost match, trimmed; <<>> stands
\* for undefined.
DetectFromHeader(text, key) ==
    LET at == { i \in 1..Len(text) : HeaderMatchAt(text, i, key) # <<>> }
    IN  IF at = {} THEN <<>>
        ELSE Trim(HeaderMatchAt(text, CHOOSE i \in at : \A o \in at : i <= o, key)[1])

KwConnection == <<"c", "o", "n", "n", "e", "c", "t", "i", "o", "n", ":">>
KwDatabase == <<"d", "a", "t", "a", "b", "a", "s", "e", ":">>

\* QueryExecutor.detectConnectionFromHeader
detectConnectionFromHeader(text) == DetectFromHeader(text, KwConnection)

\* QueryExecutor.detectDatabaseFromHeader
detectDatabaseFromHeader(text) == DetectFromHeader(text, KwDatabase)

\* The connections of the manager, in the order getAllConnections() gives
\* them, with their names.
EditorConns == <<"c1", "c2", "c3">>
EditorConnIds == {"c1", "c2", "c3"}
ConnName(id) ==
    IF id = "c1" THEN <<"P", "r", "o", "d">>
    ELSE IF id = "c2" THEN <<"d", "e", "v">>
    ELSE <<"q", "a">>
EditorStates == {Connected, Disconnected, Error}

\* The texts of the editor: every concatenation of at most MaxEditorLines
\* lines.
EditorLines ==
    { <<"-", "-", " ", "C", "o", "n", "n", "e", "c", "t", "i", "o", "n", ":", " ",
        "P", "R", "O", "D", "\n">>,
      <<"-", "-", "c", "o", "n", "n", "e", "c", "t", "i", "o", "n", ":", "d", "e", "v", " ", "\n">>,
      <<"-", "-", " ", "C", "o", "n", "n", "e", "c", "t", "i", "o", "n", ":", "\n">>,
      <<"-", "-", " ", "D", "a", "t", "a", "b", "a", "s", "e", ":", " ", "d", "b", "\n">>,
      <<"-", "-", " ", "x", "\n">>,
      <<"S", "E", "L", "E", "C", "T", " ", "1", ";", "\n">> }
EditorLineSeqs(n) == UNION { [1..k -> EditorLines] : k \in 0..n }
EditorTextsUpTo(n) == { Flatten(p) : p \in EditorLineSeqs(n) }

\* connections.filter(conn => getConnectionState(conn.id) === Connected)
RECURSIVE ConnectedOf(_, _)
ConnectedOf(conns, states) ==
    IF conns = <<>> THEN <<>>
    ELSE (IF states[Head(conns)] = Connected THEN <<Head(conns)>> ELSE <<>>)
            \o ConnectedOf(Tail(conns), states)

\* The list the name of the directive is looked up in.
Candidates_AllConnections(all, connectedConnections) == all

Candidates(all, connectedConnections) == connectedConnections

\* candidates.find(conn => conn.name.toLowerCase() === name.toLowerCase());
\* "none" stands for undefined.
RECURSIVE FindByName(_, _)
FindByName(candidates, name) ==
    IF candidates = <<>> THEN "none"
    ELSE IF toLowerCase(ConnName(Head(candidates))) = toLowerCase(name) THEN Head(candidates)
    ELSE FindByName(Tail(candidates), name)

\* The call: its position, the text and the states it met, what it
\* detected, the connection it chose and how ("directive", "only", "pick"),
\* whether executeQuery was called, and the warning shown.
NoActive ==
    [pc |-> "idle", text |-> <<>>, states |-> [id \in EditorConnIds |-> Disconnected],
     detectedConnection |-> <<>>, detectedDatabase |-> <<>>, selected |-> "none",
     via |-> "none", executed |-> FALSE, warning |-> "none"]

activeStart == active = NoActive

\* executeActiveEditorQuery, with nothing selected in the editor, to its
\* return or to the await of the quick pick.
executeActiveEditorQuery(text, states) ==
    LET detectedConnection == detectConnectionFromHeader(text)
        detectedDatabase == detectDatabaseFromHeader(text)
        connectedConnections == ConnectedOf(EditorConns, states)
        found == IF detectedConnection # <<>>
                 THEN FindByName(Candidates(EditorConns, connectedConnections), detectedConnection)
                 ELSE "none"
        call == [NoActive EXCEPT !.text = text, !.states = states, !.pc = "done",
                                 !.detectedConnection = detectedConnection,
                                 !.detectedDatabase = detectedDatabase]
    IN  /\ active.pc = "idle"
        /\ active' =
             IF Trim(text) = <<>>
             THEN [call EXCEPT !.warning = "No query to execute",
                               !.detectedConnection = <<>>, !.detectedDatabase = <<>>]
             ELSE IF Len(connectedConnections) = 0
             THEN [call EXCEPT !.warning = "No active connections. Please connect to a database first."]
             ELSE IF found # "none"
             THEN [call EXCEPT !.selected = found, !.via = "directive", !.executed = TRUE]
             ELSE IF Len(connectedConnections) = 1
             THEN [call EXCEPT !.selected = connectedConnections[1], !.via = "only",
                               !.executed = TRUE]
             ELSE [call EXCEPT !.pc = "pick"]

\* The quick pick settles: the user chose one of the connections offered,
\* or dismissed it ("none").
quickPickSettles(choice) ==
    /\ active.pc = "pick"
    /\ IF choice = "none" THEN TRUE ELSE active.states[choice] = Connected
    /\ active' = IF choice = "none" THEN [active EXCEPT !.pc = "done"]
                 ELSE [active EXCEPT !.pc = "done", !.selected = choice, !.via = "pick",
                                     !.executed = TRUE]

\* The editor is used again.
activeReturns ==
    /\ active.pc = "done"
    /\ active' = NoActive

(***************************************************************************)
(* The callers of provider.getColumns.  IDatabaseProvider declares         *)
(* getColumns(database, table); MSSQLProvider declares getColumns(table).  *)
(* A call binds its arguments to the callee's parameters by position, so   *)
(* what a provider looks up is decided by the class of the provider and by *)
(* the argument list the caller wrote.                                     *)
(***************************************************************************)
\* The databases and tables of the server.  "shop" names a database and a
\* table; "" is the database of a table reference that names none.
ColDatabases == {"", "shop", "crm"}
ColTables == {"users", "orders", "shop"}

\* The catalogue of the connected server: the columns of the table of that
\* name, none for a name that is no table.
Catalogue(name) ==
    CASE name = "users" -> <<"id", "name">>
      [] name = "orders" -> <<"id", "total">>
      [] name = "shop" -> <<"sku">>
      [] OTHER -> <<>>

\* The parameter "table" of the provider's getColumns, bound by position.
TableParameter(type, args) ==
    IF type = MSSQL THEN args[1] ELSE args[2]

\* provider.getColumns: MongoDBProvider returns []; the others query the
\* catalogue for the table named by their parameter.
getColumns(type, args) ==
    IF type = MongoDB THEN <<>> ELSE Catalogue(TableParameter(type, args))

ColumnsCall(caller, type, database, table, args) ==
    [caller |-> caller, type |-> type, database |-> database, table |-> table,
     args |-> args, columns |-> getColumns(type, args)]

NoColumnsCall ==
    [caller |-> "none", type |-> "none", database |-> "", table |-> "",
     args |-> <<>>, columns |-> <<>>]

colStart == colCall = NoColumnsCall

\* DataEditor.getTableMetadata: provider.getColumns(db, tableInfo.tableName)
metadataColumns(type, database, table) ==
    colCall' = ColumnsCall("getTableMetadata", type, database, table, <<database, table>>)

\* SqlCompletionProvider.updateSchemaCache, one table of one database of a
\* connection that is not MongoDB: provider.getColumns(db.name, table.name)
cacheColumns(type, database, table) ==
    /\ type # MongoDB
    /\ database # ""
    /\ colCall' = ColumnsCall("updateSchemaCache", type, database, table, <<database, table>>)

\* DatabaseTreeProvider.getColumns: the argument list depends on the class
\* of the provider.
treeColumns(type, database, table) ==
    colCall' = ColumnsCall("treeGetColumns", type, database, table,
                           IF type = MSSQL THEN <<table>> ELSE <<database, table>>)

(***************************************************************************)
(* Next-state relations.                                                   *)
(***************************************************************************)
\* The other components are at rest while the manager runs.
CMRest == UNCHANGED <<splitVars, qeVars, deVars, pvVars, edVars, scVars, aeVars, colVars>>

CMNext ==
    \/ \E t \in TaskIds, id \in ConnIds : CallConnect(t, id) /\ CMRest
    \/ \E t \in TaskIds, ok \in BOOLEAN : ConnectPassword(t, ok) /\ CMRest
    \/ \E t \in TaskIds, ok \in BOOLEAN : ConnectNetwork(t, ok) /\ CMRest
    \/ \E t \in TaskIds, id \in ConnIds : CallDisconnect(t, id) /\ CMRest
    \/ \E t \in TaskIds, ok \in BOOLEAN : DisconnectEnd(t, ok) /\ CMRest
    \/ \E t \in TaskIds, id \in ConnIds : CallRemove(t, id) /\ CMRest
    \/ \E t \in TaskIds, ok \in BOOLEAN : RemoveEnd(t, ok) /\ CMRest
    \/ \E t \in TaskIds, ok \in BOOLEAN : RemoveSecret(t, ok) /\ CMRest
    \/ \E t \in TaskIds, ok \in BOOLEAN : RemoveSaved(t, ok) /\ CMRest
    \/ \E t \in TaskIds, id \in ConnIds, cfg \in CfgTypes, pw \in Passwords :
            CallAdd(t, id, cfg, pw) /\ CMRest
    \/ \E t \in TaskIds, ok \in BOOLEAN : AddStored(t, ok) /\ CMRest
    \/ \E t \in TaskIds, ok \in BOOLEAN : AddSaved(t, ok) /\ CMRest
    \/ \E t \in TaskIds, id \in ConnIds, cfg \in CfgTypes, pw \in Passwords \union {NoSecret} :
            CallUpdate(t, id, cfg, pw) /\ CMRest
    \/ \E t \in TaskIds, ok \in BOOLEAN : UpdateStored(t, ok) /\ CMRest
    \/ \E t \in TaskIds, ok \in BOOLEAN : UpdateSaved(t, ok) /\ CMRest

(***************************************************************************)
(* Specifications: each component runs with the others at rest.            *)
(***************************************************************************)
SplitIdle ==
    /\ script = <<>>
    /\ scriptType = MySQL
    /\ splitPc = "idle"
    /\ splitOut = <<>>
    /\ splitAt = {}

QEIdle == QEStart /\ maxHistorySize = 1
pvIdle == pvStart /\ pv.type = MySQL

SplitInit == SplitStart /\ CMStart /\ QEIdle /\ DEStart /\ pvIdle /\ editStart /\ scStart /\ activeStart /\ colStart
SplitNext == SplitRun /\ UNCHANGED <<cmVars, qeVars, deVars, pvVars, edVars, scVars, aeVars, colVars>>
SpecSplit == SplitInit /\ [][SplitNext]_vars

CMInit == CMStart /\ SplitIdle /\ QEIdle /\ DEStart /\ pvIdle /\ editStart /\ scStart /\ activeStart /\ colStart
SpecCM == CMInit /\ [][CMNext]_vars

\* The manager's methods called one at a time, testConnection among them.
OneCall == {1}
CallsNext ==
    \/ \E t \in OneCall, id \in ConnIds : CallConnect(t, id) /\ CMRest
    \/ \E t \in OneCall, ok \in BOOLEAN : ConnectPassword(t, ok) /\ CMRest
    \/ \E t \in OneCall, ok \in BOOLEAN : ConnectNetwork(t, ok) /\ CMRest
    \/ \E t \in OneCall, id \in ConnIds : CallDisconnect(t, id) /\ CMRest
    \/ \E t \in OneCall, ok \in BOOLEAN : DisconnectEnd(t, ok) /\ CMRest
    \/ \E t \in OneCall, id \in ConnIds : CallRemove(t, id) /\ CMRest
    \/ \E t \in OneCall, ok \in BOOLEAN : RemoveEnd(t, ok) /\ CMRest
    \/ \E t \in OneCall, ok \in BOOLEAN : RemoveSecret(t, ok) /\ CMRest
    \/ \E t \in OneCall, ok \in BOOLEAN : RemoveSaved(t, ok) /\ CMRest
    \/ \E t \in OneCall, id \in ConnIds, cfg \in CfgTypes, pw \in Passwords :
            CallAdd(t, id, cfg, pw) /\ CMRest
    \/ \E t \in OneCall, ok \in BOOLEAN : AddStored(t, ok) /\ CMRest
    \/ \E t \in OneCall, ok \in BOOLEAN : AddSaved(t, ok) /\ CMRest
    \/ \E t \in OneCall, id \in ConnIds, cfg \in CfgTypes, pw \in Passwords \union {NoSecret} :
            CallUpdate(t, id, cfg, pw) /\ CMRest
    \/ \E t \in OneCall, ok \in BOOLEAN : UpdateStored(t, ok) /\ CMRest
    \/ \E t \in OneCall, ok \in BOOLEAN : UpdateSaved(t, ok) /\ CMRest
    \/ \E type \in DatabaseType \union {UnsupportedType}, outcome \in TestOutcomes :
            testConnection(type, outcome) /\ CMRest
SpecCalls == CMInit /\ [][CallsNext]_vars

\* The same calls, and the import command, which hands addConnection the
\* dialect tag of the imported file as it stands.
ImportNext ==
    \/ CallsNext
    \/ \E t \in OneCall, id \in ConnIds, pw \in Passwords :
            CallAdd(t, id, UnsupportedType, pw) /\ CMRest
SpecImport == CMInit /\ [][ImportNext]_vars

\* Connects, disconnects and removals of a connection, overlapping, and
\* updates of its configuration that change the dialect, where
\* every network call a provider's connect awaits settles: the driver's
\* promise resolves or rejects (the connects are given timeouts), and the
\* event loop then resumes the call.
LiveNext ==
    \/ \E t \in TaskIds, id \in ConnIds : CallConnect(t, id) /\ CMRest
    \/ \E t \in TaskIds, ok \in BOOLEAN : ConnectPassword(t, ok) /\ CMRest
    \/ \E t \in TaskIds, ok \in BOOLEAN : ConnectNetwork(t, ok) /\ CMRest
    \/ \E t \in TaskIds, id \in ConnIds : CallDisconnect(t, id) /\ CMRest
    \/ \E t \in TaskIds, ok \in BOOLEAN : DisconnectEnd(t, ok) /\ CMRest
    \/ \E t \in TaskIds, id \in ConnIds : CallRemove(t, id) /\ CMRest
    \/ \E t \in TaskIds, ok \in BOOLEAN : RemoveEnd(t, ok) /\ CMRest
    \/ \E t \in TaskIds, ok \in BOOLEAN : RemoveSecret(t, ok) /\ CMRest
    \/ \E t \in TaskIds, ok \in BOOLEAN : RemoveSaved(t, ok) /\ CMRest
    \/ \E t \in TaskIds, id \in ConnIds, cfg \in CfgTypes, pw \in {NoSecret} :
            CallUpdate(t, id, cfg, pw) /\ CMRest
    \/ \E t \in TaskIds, ok \in BOOLEAN : UpdateSaved(t, ok) /\ CMRest
NetworkSettles(t) == \E ok \in BOOLEAN : ConnectNetwork(t, ok) /\ CMRest
SpecLive ==
    /\ CMInit
    /\ [][LiveNext]_vars
    /\ \A t \in TaskIds : WF_vars(NetworkSettles(t))

QERest == UNCHANGED <<splitVars, cmVars, deVars, pvVars, edVars, scVars, aeVars, colVars>>

QEInit == QEStart /\ SplitIdle /\ CMStart /\ DEStart /\ pvIdle /\ editStart /\ scStart /\ activeStart /\ colStart
QENext ==
    \/ \E query \in QueryScriptsUpTo(MaxQueryLexemes), type \in SplitTypes, hasProvider, hasConnection \in BOOLEAN :
            ExecuteQuery(query, type, hasProvider, hasConnection) /\ QERest
    \/ \E out \in ProviderOutcomes : SingleSettles(out) /\ QERest
    \/ \E out \in ProviderOutcomes : BatchSettles(out) /\ QERest
    \/ Cancel /\ QERest
SpecQE == QEInit /\ [][QENext]_vars

DERest == UNCHANGED <<splitVars, cmVars, qeVars, pvVars, edVars, scVars, aeVars, colVars>>

DEInit == DEStart /\ SplitIdle /\ CMStart /\ QEIdle /\ pvIdle /\ editStart /\ scStart /\ activeStart /\ colStart
DENext ==
    \/ \E change \in CellChanges : addCellChange(change) /\ DERest
    \/ \E row \in NewRows : addNewRow(row) /\ DERest
    \/ \E row \in DeletedRows : markRowForDeletion(row) /\ DERest
    \/ clearChanges /\ DERest
    \/ \E tableInfo \in TableInfos, dbType \in DETypes :
            GenerateSqlStatements(tableInfo, dbType) /\ DERest
SpecDE == DEInit /\ [][DENext]_vars

\* A session that also saves: the editing calls arrive while executeChanges
\* is suspended as well as between saves.
\* and the cell edits are those of the column the panel lets the user edit
\* (the cells of the key column id are not editable).
EditableCellChanges == { change \in CellChanges : change.column = ColName }

SaveRest == DERest /\ PendingCount' <= MaxSavedChanges
SaveNext ==
    \/ \E change \in EditableCellChanges : addCellChange(change) /\ SaveRest
    \/ \E row \in NewRows : addNewRow(row) /\ SaveRest
    \/ \E row \in DeletedRows : markRowForDeletion(row) /\ SaveRest
    \/ clearChanges /\ SaveRest
    \/ \E tableInfo \in TableInfos, type \in DETypes, hasProvider \in BOOLEAN :
            executeChanges(tableInfo, type, hasProvider) /\ SaveRest
    \/ \E outcome \in ProviderOutcomes : executeChangesSettles(outcome) /\ SaveRest
SpecSave == DEInit /\ [][SaveNext]_vars

FormatNext ==
    \E value \in FormatValues(MaxTextLength), dbType \in DatabaseType :
        formatValueCall(value, dbType) /\ DERest
SpecFormat == DEInit /\ [][FormatNext]_vars

pvRest == UNCHANGED <<splitVars, cmVars, qeVars, deVars, edVars, scVars, aeVars, colVars>>
pvInit == pvStart /\ SplitIdle /\ CMStart /\ QEIdle /\ DEStart /\ editStart /\ scStart /\ activeStart /\ colStart
pvNext ==
    \/ pvConnect /\ pvRest
    \/ \E ok \in BOOLEAN : pvConnectEnd(ok) /\ pvRest
    \/ pvDisconnect /\ pvRest
    \/ \E ok \in BOOLEAN : pvDisconnectEnd(ok) /\ pvRest
    \/ \E op \in ProviderOps, driverOk, blank \in BOOLEAN : pvCall(op, driverOk, blank) /\ pvRest
SpecProvider == pvInit /\ [][pvNext]_vars

edRest == UNCHANGED <<splitVars, cmVars, qeVars, deVars, pvVars, scVars, aeVars, colVars>>
edInit == SplitIdle /\ CMStart /\ QEIdle /\ DEStart /\ pvIdle /\ editStart /\ scStart /\ activeStart /\ colStart
edNext ==
    \/ /\ edit.pc = "idle"
       /\ \E query \in EditQueriesUpTo(MaxEditLexemes) : enableEditMode(query) /\ edRest
    \/ \E hasProvider, threw \in BOOLEAN, columns \in ColumnLists :
            enableEditModeSettles(hasProvider, threw, columns) /\ edRest
    \/ updateResults /\ edRest
SpecEdit == edInit /\ [][edNext]_vars

scRest == UNCHANGED <<splitVars, cmVars, qeVars, deVars, pvVars, edVars, aeVars, colVars>>
scInit == SplitIdle /\ CMStart /\ QEIdle /\ DEStart /\ pvIdle /\ editStart /\ scStart /\ activeStart /\ colStart
scNext ==
    \/ \E p \in PassIds : updateSchemaCache(p) /\ scRest
    \/ \E p \in PassIds, id \in CacheIds : refreshCache(p, id) /\ scRest
    \/ \E p \in PassIds, outcome \in FetchOutcomes : databasesSettle(p, outcome) /\ scRest
    \/ \E p \in PassIds, outcome \in FetchOutcomes : tablesSettle(p, outcome) /\ scRest
    \/ \E p \in PassIds : columnsSettle(p) /\ scRest
    \/ \E live \in [CacheIds -> BOOLEAN] : connectionsChanged(live) /\ scRest
    \/ Tick /\ scRest
SpecCache == scInit /\ [][scNext]_vars

aeRest == UNCHANGED <<splitVars, cmVars, qeVars, deVars, pvVars, edVars, scVars, colVars>>
aeInit == SplitIdle /\ CMStart /\ QEIdle /\ DEStart /\ pvIdle /\ editStart /\ scStart /\ activeStart /\ colStart
aeNext ==
    \/ /\ active.pc = "idle"
       /\ \E text \in EditorTextsUpTo(MaxEditorLines), states \in [EditorConnIds -> EditorStates] :
              executeActiveEditorQuery(text, states) /\ aeRest
    \/ \E choice \in EditorConnIds \union {"none"} : quickPickSettles(choice) /\ aeRest
    \/ activeReturns /\ aeRest
SpecActive == aeInit /\ [][aeNext]_vars

colRest == UNCHANGED <<splitVars, cmVars, qeVars, deVars, pvVars, edVars, scVars, aeVars>>
colInit == colStart /\ CMStart /\ SplitIdle /\ QEIdle /\ DEStart /\ pvIdle /\ editStart /\ scStart /\ activeStart
colNext ==
    \/ \E type \in DatabaseType, database \in ColDatabases, table \in ColTables :
            metadataColumns(type, database, table) /\ colRest
    \/ \E type \in DatabaseType, database \in ColDatabases, table \in ColTables :
            cacheColumns(type, database, table) /\ colRest
    \/ \E type \in DatabaseType, database \in ColDatabases, table \in ColTables :
            treeColumns(type, database, table) /\ colRest
SpecColumns == colInit /\ [][colNext]_vars

(***************************************************************************)
(* Claims about the connection lifecycle.                                  *)
(***************************************************************************)
ClaimedEdges ==
    { <<Disconnected, Connecting>>, <<Connecting, Connected>>,
      <<Connecting, Error>>, <<Connected, Disconnected>>, <<Error, Disconnected>> }

\* A step of a call on id that no other call on id overlaps: the call of a
\* method while the id has no call in flight, or a later step of a call that
\* no other call has overlapped since it was made.
SequentialStep(id) ==
    \/ ActiveOn(id) = {}
    \/ \E t \in TaskIds :
          /\ ActiveOn(id) = {t}
          /\ ~tasks[t].overlapped /\ ~tasks'[t].overlapped
          /\ tasks'[t] # tasks[t]
          /\ \A u \in TaskIds \ {t} : tasks'[u] = tasks[u]

EdgesTaken(id, edges) ==
    \/ getConnectionState(id)' = getConnectionState(id)
    \/ <<getConnectionState(id), getConnectionState(id)'>> \in edges

\* C4 as claimed: under calls of connect, disconnect and remove that follow
\* one another, the state getConnectionState reports changes only along
\* Disconnected->Connecting, Connecting->Connected, Connecting->Error,
\* Connected->Disconnected and Error->Disconnected.
C4_OnlyClaimedEdges ==
    [][\A id \in ConnIds : SequentialStep(id) => EdgesTaken(id, ClaimedEdges)]_vars

\* C4 as amended: under calls that follow one another the reported state
\* changes only along the five claimed edges and the two edges on which
\* connect is called for an id that has a provider, Error->Connecting (the
\* retry) and Connected->Connecting.
C4_SequentialEdges ==
    [][\A id \in ConnIds :
          SequentialStep(id) =>
              EdgesTaken(id, ClaimedEdges \union
                             { <<Error, Connecting>>, <<Connected, Connecting>> })]_vars

\* C4's case: a retry is connecting, alone on its id, on the provider that
\* was in state Error.
C4_RetryIsConnecting ==
    \E t \in TaskIds :
        /\ tasks[t].pc = "cn_network"
        /\ tasks[t].from = Error
        /\ ActiveOn(tasks[t].id) = {t}
        /\ ~tasks[t].overlapped
        /\ getConnectionState(tasks[t].id) = Connecting

\* C5: when Provider.connect fails inside connect(id) the call rejects, the
\* instance is not taken out of the provider map and is in state Error, so
\* that getConnectionState(id) reports Error, and no call is started in its
\* place; and a connect(id) that finds an instance in the map connects that
\* instance and leaves the map entry as it is.
C5_FailedConnectKeepsProvider ==
    [][/\ (ret'.op = "connect" /\ ret'.stage = "provider") =>
            /\ ret'.result = "error"
            /\ \A t \in TaskIds : Active(t)' => (Active(t) /\ tasks'[t] = tasks[t])
            /\ \A id \in ConnIds :
                  (id = ret'.id /\ providers[id] = ret'.prov) =>
                      /\ providers'[id] = ret'.prov
                      /\ provObj'[ret'.prov].state = Error
                      /\ getConnectionState(id)' = Error
       /\ \A t \in TaskIds :
            (tasks[t].pc = "cn_password" /\ tasks'[t].pc = "cn_network"
                /\ providers[tasks[t].id] # 0) =>
                  /\ tasks'[t].prov = providers[tasks[t].id]
                  /\ providers'[tasks[t].id] = providers[tasks[t].id]
                  /\ provObj'[tasks'[t].prov].type = provObj[tasks'[t].prov].type
      ]_vars

\* C5's case: after a failed connect a later connect is connecting the very
\* instance that was left in state Error.
C5_RetryReusesInstance ==
    \E t \in TaskIds :
        /\ tasks[t].pc = "cn_network"
        /\ tasks[t].from = Error
        /\ ~tasks[t].created
        /\ providers[tasks[t].id] = tasks[t].prov

\* C6: a disconnect(id) that returns has, for an id with a provider, called
\* Provider.disconnect and left the id without a provider, reported as
\* Disconnected; for an id without a provider it has called no provider,
\* fired no notification and changed nothing of the manager's state.
C6_DisconnectDiscardsOrDoesNothing ==
    [][(ret'.op = "disconnect" /\ ret'.result = "ok") =>
          IF ret'.hadProvider
          THEN /\ ret'.called
               /\ \A id \in ConnIds :
                     id = ret'.id => /\ providers'[id] = 0
                                     /\ getConnectionState(id)' = Disconnected
          ELSE /\ ~ret'.called
               /\ ret'.fired = 0
               /\ UNCHANGED <<connections, persisted, secrets, providers,
                              provObj, openHandles>>
      ]_vars

\* C6's case: a disconnect of an id that had a provider has returned.
C6_LiveDisconnectReturned ==
    /\ ret.op = "disconnect"
    /\ ret.result = "ok"
    /\ ret.hadProvider
    /\ providers[ret.id] = 0

\* C7: every call of add, remove, update, connect or disconnect of a live
\* connection that completes has fired exactly one notification.
C7_OneNotificationPerCall ==
    (/\ ret.op \in {"add", "remove", "update", "connect", "disconnect"}
     /\ ret.result = "ok"
     /\ ret.op = "disconnect" => ret.hadProvider)
        => ret.fired = 1
(***************************************************************************)
(* Claims about QueryExecutor.executeQuery.                                *)
(***************************************************************************)
\* C1: in a batch (a script of N > 1 statements) the statements go to the
\* provider in source order, one at a time: only the last statement issued
\* can be awaiting its outcome, and every earlier one has its entry in the
\* result list.  A batch that ends without a cancellation request has issued
\* all N statements and has N entries, entry i paired with statement i, and
\* the entry of a statement that failed (an error result or a throw) carries
\* an error and rowCount 0.
C1_BatchRunsEveryStatementInOrder ==
    Len(queries) > 1 =>
        /\ Len(issued) <= Len(queries)
        /\ \A k \in 1..Len(issued) :
              /\ issued[k].query = queries[k]
              /\ issued[k].outcome = "pending" => (k = Len(issued) /\ qePc = "batch")
        /\ Len(results) = Cardinality({ k \in 1..Len(issued) : issued[k].outcome # "pending" })
        /\ \A k \in 1..Len(results) :
              /\ results[k].query = queries[k]
              /\ issued[k].outcome \in {"failed", "thrown"} =>
                    /\ results[k].result.error # NoError
                    /\ results[k].result.rowCount = 0
        /\ (qePc = "done" /\ ~isCancellationRequested) =>
              /\ Len(issued) = Len(queries)
              /\ Len(results) = Len(queries)
              /\ shown = results

\* C1's case: a batch of three statements has ended, the second statement
\* threw and the first and the third returned normally.
C1_MiddleStatementFailed ==
    /\ qePc = "done"
    /\ Len(queries) = 3
    /\ ~isCancellationRequested
    /\ Len(results) = 3
    /\ issued[1].outcome = "returned"
    /\ issued[2].outcome = "thrown"
    /\ issued[3].outcome = "returned"
    /\ results[2].result.error # NoError
    /\ results[3].result.error = NoError
(***************************************************************************)
(* Claims about DataEditor.                                                *)
(***************************************************************************)
\* The keyword a statement begins with.
Kind(sql) == SubSeq(sql, 1, 6)
KindDelete == <<"D", "E", "L", "E", "T", "E">>
KindUpdate == <<"U", "P", "D", "A", "T", "E">>
KindInsert == <<"I", "N", "S", "E", "R", "T">>
KindRank(kind) == IF kind = KindDelete THEN 1 ELSE IF kind = KindUpdate THEN 2 ELSE 3
CountKind(statements, kind) ==
    Cardinality({ k \in 1..Len(statements) : Kind(statements[k]) = kind })

\* C8: the statements generateSqlStatements returns are the DELETE
\* statements, one for each delete marker, then the UPDATE statements, then
\* the INSERT statements, one for each pending insert: no statement is
\* followed by one of an earlier kind.
C8_DeletesThenUpdatesThenInserts ==
    (deRet.op = "generateSqlStatements" /\ ~deRet.out.threw) =>
        LET statements == deRet.out.statements
        IN  /\ \A j, k \in 1..Len(statements) :
                  j < k => KindRank(Kind(statements[j])) <= KindRank(Kind(statements[k]))
            /\ CountKind(statements, KindDelete) = Len(deletes)
            /\ CountKind(statements, KindInsert) = Len(inserts)
            /\ Len(statements) = Len(deletes) + Len(RowsOf(updates)) + Len(inserts)

\* C8's case: a deletion, a cell change and a new row are pending and
\* generateSqlStatements has returned a statement of each kind.
C8_AllThreeKindsGenerated ==
    /\ deRet.op = "generateSqlStatements"
    /\ ~deRet.out.threw
    /\ Len(deletes) = 1 /\ Len(updates) = 1 /\ Len(inserts) = 1
    /\ Len(deRet.out.statements) = 3

\* The UPDATE statement the claim describes for a row index: the changed
\* columns of the row with their recorded newValue, and every primary-key
\* column equated to the value of the baseline row.
ClaimedUpdate(rowIndex, tableInfo, dbType) ==
    LET changed == SelectSeq(updates, LAMBDA c : c.rowIndex = rowIndex)
        baseline == OriginalRows[rowIndex + 1]
    IN  <<"U", "P", "D", "A", "T", "E", " ">> \o getFullTableName(tableInfo, dbType)
            \o <<" ", "S", "E", "T", " ">>
            \o Join([k \in 1..Len(changed) |->
                        quoteIdentifier(changed[k].column, dbType) \o <<" ", "=", " ">>
                            \o formatValue(changed[k].newValue, dbType)], <<",", " ">>)
            \o <<" ", "W", "H", "E", "R", "E", " ">>
            \o Join([k \in 1..Len(tableInfo.primaryKeys) |->
                        quoteIdentifier(tableInfo.primaryKeys[k], dbType) \o <<" ", "=", " ">>
                            \o formatValue(Get(baseline, tableInfo.primaryKeys[k]), dbType)],
                    <<" ", "A", "N", "D", " ">>)
            \o <<";">>

ChangedRows == { updates[k].rowIndex : k \in 1..Len(updates) }

\* C9: whenever generateSqlStatements is called it emits exactly one UPDATE
\* statement for each row index that has pending cell changes, and for a
\* row of the baseline that statement sets the changed columns to their
\* latest newValue where every primary-key column equals the baseline value.
C9_OneUpdatePerChangedRow ==
    deRet.op = "generateSqlStatements" =>
        LET statements == deRet.out.statements
        IN  /\ CountKind(statements, KindUpdate) = Cardinality(ChangedRows)
            /\ \A r \in ChangedRows :
                  HasRow(OriginalRows, r) =>
                      Cardinality({ k \in 1..Len(statements) :
                          statements[k] = ClaimedUpdate(r, deRet.tableInfo, deRet.dbType) }) = 1

SameCell(a, b) == a.rowIndex = b.rowIndex /\ a.column = b.column

\* C10: every addCellChange leaves at most one entry for each (rowIndex,
\* column) pair; a call for a pair that has an entry changes nothing but
\* that entry's newValue (or takes the entry out when the new value is the
\* entry's oldValue), so the entry keeps the oldValue of the call that
\* created it; a call for a pair without an entry appends its change.
C10_OneEntryPerCellOldValueKept ==
    [][deRet'.op = "addCellChange" =>
          LET change == deRet'.change
              existingIndex ==
                  FindIndex([k \in 1..Len(updates) |-> SameCell(updates[k], change)])
          IN  /\ \A j, k \in 1..Len(updates') :
                    SameCell(updates'[j], updates'[k]) => j = k
              /\ existingIndex > 0 =>
                    \/ updates' = [updates EXCEPT ![existingIndex].newValue = change.newValue]
                    \/ /\ updates[existingIndex].oldValue = change.newValue
                       /\ updates' = Splice(updates, existingIndex)
              /\ existingIndex = 0 => updates' = Append(updates, change)
      ]_vars

\* C10's case: a later addCellChange for a cell supplied another oldValue
\* than the call that created the entry, and the entry has the later
\* newValue and the first oldValue.
C10_LaterCallKeptOldValue ==
    /\ deRet.op = "addCellChange"
    /\ \E k \in 1..Len(updates) :
          /\ SameCell(updates[k], deRet.change)
          /\ updates[k].newValue = deRet.change.newValue
          /\ updates[k].oldValue # deRet.change.oldValue

\* C11: after any sequence of addCellChange calls no entry of the update
\* collection has a newValue equal to its oldValue.
C11_NoNoOpEntryPersisted ==
    \A k \in 1..Len(updates) : updates[k].newValue # updates[k].oldValue

\* C12: an addCellChange whose newValue is the oldValue of the entry recorded
\* for its cell removes that entry and nothing else, and the same call made
\* again right after it leaves the update collection as the first one left it.
C12_RevertRemovesAndIsIdempotent ==
    [][deRet'.op = "addCellChange" =>
          LET change == deRet'.change
              existingIndex ==
                  FindIndex([k \in 1..Len(updates) |-> SameCell(updates[k], change)])
              repeatsRevert ==
                  /\ deRet.op = "addCellChange"
                  /\ deRet.change = change
                  /\ existingIndex = 0
          IN  /\ (existingIndex > 0 /\ updates[existingIndex].oldValue = change.newValue)
                    => updates' = Splice(updates, existingIndex)
              /\ repeatsRevert => updates' = updates
      ]_vars

\* C13: markRowForDeletion(row) for a row whose data carries the temp-id of
\* a pending insert takes one insert with that temp-id out of the insert
\* buffer and records no delete marker; for any other row it appends the
\* row as one delete marker and leaves the insert buffer alone; the update
\* collection is left alone in both cases.
C13_DeleteReconcilesPendingInsert ==
    [][deRet'.op = "markRowForDeletion" =>
          LET row == deRet'.row
              carried == Get(row.data, KeyTempId)
              matching == { k \in 1..Len(inserts) : inserts[k].tempId = carried }
          IN  /\ matching # {} =>
                    /\ \E k \in matching : inserts' = Splice(inserts, k)
                    /\ deletes' = deletes
              /\ matching = {} =>
                    /\ deletes' = Append(deletes, row)
                    /\ inserts' = inserts
              /\ updates' = updates
      ]_vars

\* C13's case: the row of the call carried a temp-id and no delete marker
\* is recorded, so the call took the pending insert out, while another
\* insert is still pending.
C13_UnsavedRowDeleted ==
    /\ deRet.op = "markRowForDeletion"
    /\ Get(deRet.row.data, KeyTempId) # Undefined
    /\ deletes = <<>>
    /\ Len(inserts) = 1

(***************************************************************************)
(* Claims about saving.                                                    *)
(***************************************************************************)
\* The three pending-change collections
pending == <<updates, inserts, deletes>>
Cleared == <<updates, inserts, deletes>>' = << <<>>, <<>>, <<>> >>

\* A step of executeChanges: its first part, or one after an await.
ExecuteChangesStep == saving' # saving \/ deRet'.op = "executeChanges"

\* C14 as stated: a call of executeChanges that returns has cleared the
\* pending changes and reports success if every statement succeeded and a
\* Provider was available; if a statement failed or no Provider was
\* available it reports success = false and none of its steps has changed
\* the three collections.
C14_ClearsIffAllSucceededAndProvider ==
    [][ExecuteChangesStep =>
          IF deRet'.op = "executeChanges" /\ ~deRet'.out.threw
          THEN LET result == deRet'.result
               IN  IF result.errors # <<>> \/ ~deRet'.hasProvider
                   THEN ~result.success /\ pending' = pending
                   ELSE result.success /\ Cleared
          ELSE pending' = pending
      ]_vars

\* C14, amended: a call of executeChanges that returns has cleared the
\* pending changes and reports success if and only if every compiled
\* statement succeeded, which includes the call that compiles no statement
\* and returns success whether or not a Provider is available; if a
\* statement failed, or statements were compiled and no Provider is
\* available, it reports success = false; no step of a call other than the
\* clearing changes the three collections, so that a failed call leaves
\* them as they were, and so does a call whose compilation throws.
C14_ClearsIffAllSucceeded ==
    [][ExecuteChangesStep =>
          IF deRet'.op = "executeChanges" /\ ~deRet'.out.threw
          THEN LET result == deRet'.result
                   unavailable == ~deRet'.hasProvider /\ Len(deRet'.out.statements) > 0
               IN  IF result.errors # <<>> \/ unavailable
                   THEN ~result.success /\ pending' = pending
                   ELSE result.success /\ Cleared
          ELSE pending' = pending
      ]_vars

\* C14's case: a save of two statements returned with one statement failed
\* and the other applied, and the two pending changes are still there.
C14_PartialFailureKeepsChanges ==
    /\ deRet.op = "executeChanges"
    /\ ~deRet.result.success
    /\ Len(deRet.result.errors) = 1
    /\ deRet.result.affectedRows = 1
    /\ PendingCount = 2

(***************************************************************************)
(* Claims about the query history and cancellation.                        *)
(***************************************************************************)
IsSuffix(a, b) == Len(a) <= Len(b) /\ a = SubSeq(b, Len(b) - Len(a) + 1, Len(b))
MostRecent(seq, m) == SubSeq(seq, (IF Len(seq) > m THEN Len(seq) - m ELSE 0) + 1, Len(seq))
Pending(log) == Len(log) > 0 /\ log[Len(log)].outcome = "pending"

\* C15: the step in which a statement issued to the provider gets its
\* outcome (a result, an error result or a throw, on the single-statement
\* path or in the batch loop) appends exactly one history entry, the one
\* of that statement; no other step changes the history.
C15_EveryIssuedStatementRecorded ==
    [][IF Pending(issued) /\ issued'[Len(issued)].outcome # "pending"
       THEN LET n == Len(queryHistory')
            IN  /\ n > 0
                /\ queryHistory'[n].query = issued[Len(issued)].query
                /\ queryHistory'[n].success = (issued'[Len(issued)].outcome = "returned")
                /\ IsSuffix(SubSeq(queryHistory', 1, n - 1), queryHistory)
       ELSE queryHistory' = queryHistory
      ]_vars

\* C16: for every configured maxHistorySize the history never holds more
\* than maxHistorySize entries, and recording an outcome leaves the
\* maxHistorySize most recent entries in insertion order.
C16_HistoryHoldsTheMostRecent ==
    /\ [](Len(queryHistory) <= maxHistorySize)
    /\ [][queryHistory' # queryHistory =>
            /\ Len(queryHistory') > 0
            /\ queryHistory' = MostRecent(Append(queryHistory,
                                                 queryHistory'[Len(queryHistory')]),
                                          maxHistorySize)
         ]_vars

\* C17: once cancellation is requested no further statement goes to the
\* provider; the request itself touches neither the statement in flight
\* nor the results and the history; a batch that ended on a cancellation
\* has issued a proper prefix of its statements, each of them has its
\* outcome and its entry, the entries are the ones shown, and the history
\* ends with the entries of the statements that ran; the single-statement
\* path never sees a cancellation request.
C17_CancellationStopsBeforeNextStatement ==
    /\ []((qePc = "done" /\ \E k \in 1..Len(notice) : notice[k] = "cancelled") =>
            /\ Len(issued) < Len(queries)
            /\ \A k \in 1..Len(issued) :
                  issued[k].query = queries[k] /\ issued[k].outcome # "pending"
            /\ Len(results) = Len(issued)
            /\ \A k \in 1..Len(results) : results[k].query = queries[k]
            /\ shown = results
            /\ Len(queryHistory) <= Len(results)
            /\ maxHistorySize > 0 => Len(queryHistory) > 0
            /\ \A k \in 1..Len(queryHistory) :
                  queryHistory[k].query =
                      results[Len(results) - Len(queryHistory) + k].query)
    /\ [](qePc = "single" => ~isCancellationRequested)
    /\ [][/\ isCancellationRequested => Len(issued') = Len(issued)
          /\ (isCancellationRequested' /\ ~isCancellationRequested) =>
                (issued' = issued /\ results' = results /\ queryHistory' = queryHistory)
         ]_vars

\* C17's case: a batch of three statements was cancelled while its second
\* statement was at the provider; it ended with two entries shown.
C17_CancelledAfterTwoOfThree ==
    /\ qePc = "done"
    /\ Len(queries) = 3
    /\ Len(shown) = 2
    /\ notice[1] = "cancelled"

(***************************************************************************)
(* Claims about the provider calls.                                        *)
(***************************************************************************)
\* C18: executeQuery never throws, whatever the class and the state of the
\* provider; a failure comes back as a result whose error is set, whose
\* rowCount is 0 and which has no rows.
C18_ExecuteQueryNeverThrows ==
    pvRet.op = "executeQuery" =>
        /\ pvRet.outcome # "threw"
        /\ pvRet.outcome = "error" =>
              (pvRet.error # "none" /\ pvRet.rowCount = 0 /\ ~pvRet.rows)

\* C19: for every provider class, getDatabases, getTables, getColumns and
\* executeQuery called while the state is not Connected raise the "not
\* connected" condition and do not call the handle.
C19_NotConnectedRaises ==
    (pvRet.op \in ProviderOps /\ pvRet.state # Connected) =>
        /\ pvRet.outcome = "threw"
        /\ pvRet.error = "not connected"
        /\ ~pvRet.called

(***************************************************************************)
(* Claims about failures of the manager's calls.                           *)
(***************************************************************************)
\* A step in which the call in slot t gets a failure from the secret
\* store, the provider or the persistence.
FailureStep(t) ==
    \/ ConnectPassword(t, FALSE)
    \/ ConnectNetwork(t, FALSE)
    \/ DisconnectEnd(t, FALSE)
    \/ RemoveEnd(t, FALSE)
    \/ RemoveSecret(t, FALSE)
    \/ RemoveSaved(t, FALSE)
    \/ AddStored(t, FALSE)
    \/ AddSaved(t, FALSE)

\* C20: a connect, disconnect, addConnection or removeConnection call that
\* gets a failure from the provider, the secret store or the persistence
\* rejects in that step, so that a call that resolves has met no failure;
\* testConnection never rejects: it returns true when the provider's test
\* returned true and false in every other case, an unsupported dialect tag
\* included.
C20_FailuresRejectTestReturnsFalse ==
    [][/\ \A t \in TaskIds :
            (tasks[t].op \in {"connect", "disconnect", "remove", "add"} /\ FailureStep(t)) =>
                /\ ret'.op = tasks[t].op
                /\ ret'.result = "error"
                /\ tasks'[t].pc = "idle"
       /\ ret'.op = "testConnection" =>
            /\ ret'.result \in {"true", "false"}
            /\ ret'.result = "true" <=> ret'.stage = "done"
      ]_vars

\* C20's case: testConnection was given a configuration with an
\* unsupported dialect tag and returned false.
C20_UnsupportedTestReturnedFalse ==
    /\ ret.op = "testConnection"
    /\ ret.stage = "unsupported"
    /\ ret.result = "false"

(***************************************************************************)
(* Claims about removal and about testing a configuration.                 *)
(***************************************************************************)
\* C21: when removeConnection(id) has returned normally the provider map has
\* no entry for id, no password is stored for id, and neither the
\* configuration map nor the persisted list holds id; a provider the id had
\* was disconnected by the call, and the map entry was gone before the
\* password or the configuration was deleted.
C21_RemovedLeavesNothing ==
    [][/\ \A id \in ConnIds :
            (ret'.op = "remove" /\ ret'.result = "ok" /\ ret'.id = id) =>
                /\ providers'[id] = 0
                /\ secrets'[id] = NoSecret
                /\ connections'[id] = NoConfig
                /\ persisted'[id] = NoConfig
                /\ ret'.hadProvider => ret'.called
       /\ \A t \in TaskIds :
            (tasks[t].op = "remove" /\ (secrets' # secrets \/ connections' # connections)) =>
                providers[tasks[t].id] = 0
      ]_vars

\* C21's case: the removal of a connection that had a provider returned.
C21_LiveConnectionRemoved ==
    /\ ret.op = "remove"
    /\ ret.result = "ok"
    /\ ret.hadProvider
    /\ ret.fired = 2

\* C22: testConnection(config, password) leaves the manager as it was,
\* whatever the test's outcome: the configuration map, the persisted list,
\* the stored passwords, the provider map and the state reported for every
\* connection are the same after the call as before it, and the call fires
\* no "connections changed" notification.
C22_TestChangesNothing ==
    [][ret'.op = "testConnection" =>
            /\ connections' = connections
            /\ persisted' = persisted
            /\ secrets' = secrets
            /\ providers' = providers
            /\ \A id \in ConnIds : getConnectionState(id)' = getConnectionState(id)
            /\ ret'.fired = 0
      ]_vars

\* C22's case: a configuration was tested, and the test failed, while a
\* connection of the manager was Connected.
C22_TestedWhileConnected ==
    /\ ret.op = "testConnection"
    /\ ret.result = "false"
    /\ \E id \in ConnIds : getConnectionState(id) = Connected

(***************************************************************************)
(* Claims about edit mode.                                                 *)
(***************************************************************************)
\* The characters of the query outside its single-quoted string literals;
\* the quotes themselves are kept, so that words stay apart.
RECURSIVE OutsideLiterals(_, _)
OutsideLiterals(query, inLiteral) ==
    IF query = <<>> THEN <<>>
    ELSE IF Head(query) = "'" THEN <<"'">> \o OutsideLiterals(Tail(query), ~inLiteral)
    ELSE (IF inLiteral THEN <<>> ELSE <<Head(query)>>) \o OutsideLiterals(Tail(query), inLiteral)

\* The reason the rules give for a query when JOIN, UNION and GROUP BY are
\* looked for in text: the first rule matched, in the order non-SELECT, JOIN,
\* subquery, UNION, GROUP BY, missing FROM; NoEditError when none matches.
FirstRuleMatched(query, text) ==
    IF ~StartsWith(toLowerCase(Trim(query)), KwSelect) THEN "Only SELECT queries can be edited"
    ELSE IF TestWord(text, KwJoin) THEN "Queries with JOINs cannot be edited directly"
    ELSE IF CountLiteral(query, KwSelect) > 1 THEN "Queries with subqueries cannot be edited directly"
    ELSE IF TestWord(text, KwUnion) THEN "UNION queries cannot be edited directly"
    ELSE IF TestWords(text, KwGroup, KwBy) THEN "Aggregated queries cannot be edited"
    ELSE IF fromMatch(query) = <<>> THEN "Could not identify table name"
    ELSE NoEditError

\* C23: parseQueryForTable classifies a query as not editable, with the
\* reason of the first rule matched, when it does not start with SELECT,
\* holds JOIN outside string literals, holds SELECT more than once, holds
\* UNION or GROUP BY outside string literals, or has no FROM clause, in this
\* order, and as editable when no rule matches.
C23_ClassifiedByFirstRuleOutsideLiterals ==
    edit.pc # "idle" =>
        LET reason == FirstRuleMatched(edit.query, OutsideLiterals(edit.query, FALSE))
        IN  /\ edit.parsed.isEditable <=> reason = NoEditError
            /\ edit.parsed.editError = reason

\* The fetched columns that are marked primary key, in the order fetched.
IsMarkedPrimaryKey(column) == column.isPrimaryKey
MarkedPrimaryKey(columns) == SelectSeq(columns, IsMarkedPrimaryKey)

\* C24: getTableMetadata returns an editable table info exactly when the
\* columns were fetched and at least one of them is marked primary key, and
\* then primaryKeys is the list of the names of those columns; without a
\* primary-key column, without a provider or when the fetch failed it
\* returns a table info that is not editable and carries a reason.
C24_EditableIffPrimaryKeyFetched ==
    edit.call.called =>
        LET fetched == edit.call.hasProvider /\ ~edit.call.threw
            marked == MarkedPrimaryKey(edit.call.columns)
        IN  /\ edit.tableInfo.isEditable <=> (fetched /\ Len(marked) > 0)
            /\ edit.tableInfo.isEditable =>
                  /\ Len(edit.tableInfo.primaryKeys) = Len(marked)
                  /\ \A k \in 1..Len(marked) : edit.tableInfo.primaryKeys[k] = marked[k].name
            /\ ~edit.tableInfo.isEditable => edit.tableInfo.editError # NoEditError
            /\ edit.enabled = edit.tableInfo.isEditable

\* C24's case: two columns were fetched, one of them the primary key, and
\* edit mode was enabled.
C24_OneOfTwoColumnsIsKey ==
    /\ edit.call.called
    /\ Len(edit.call.columns) = 2
    /\ edit.tableInfo.isEditable
    /\ edit.tableInfo.primaryKeys = << ColName >>

(***************************************************************************)
(* Claims about the SQL text of values.                                    *)
(***************************************************************************)
\* The single quotes among the first k characters.
QuotesBefore(chars, k) == Cardinality({ j \in 1..k : chars[j] = "'" })

\* inner is chars with every single quote doubled.
IsDoubled(inner, chars) ==
    /\ Len(inner) = Len(chars) + QuotesBefore(chars, Len(chars))
    /\ \A k \in 1..Len(chars) :
          LET at == k + QuotesBefore(chars, k - 1)
          IN  /\ inner[at] = chars[k]
              /\ chars[k] = "'" => inner[at + 1] = "'"

\* C25: formatValue gives NULL for null and undefined, the digits of a
\* number without quotes, TRUE or FALSE for a boolean under PostgreSQL and
\* 1 or 0 under every other dialect, the ISO-8601 text of a date in single
\* quotes, and for any other value its text in single quotes with every
\* single quote inside doubled.
C25_FormatsByTypeAndDialect ==
    deRet.op = "formatValue" =>
        LET value == deRet.change.newValue
            text == deRet.out.statements[1]
        IN  CASE value.t \in {"null", "undefined"} -> text = <<"N", "U", "L", "L">>
              [] value.t = "number" -> text = value.v
              [] value.t = "boolean" ->
                    text = IF deRet.dbType = PostgreSQL
                           THEN (IF value = Bool(TRUE) THEN <<"T", "R", "U", "E">>
                                                       ELSE <<"F", "A", "L", "S", "E">>)
                           ELSE (IF value = Bool(TRUE) THEN <<"1">> ELSE <<"0">>)
              [] value.t = "date" -> text = <<"'">> \o value.v \o <<"'">>
              [] OTHER ->
                    /\ Len(text) >= 2
                    /\ text[1] = "'"
                    /\ text[Len(text)] = "'"
                    /\ IsDoubled(SubSeq(text, 2, Len(text) - 1), value.v)

\* C25's case: O'Brien was formatted as 'O''Brien'.
C25_OBrienQuoted ==
    /\ deRet.op = "formatValue"
    /\ deRet.change.newValue = Str(OBrien)
    /\ deRet.out.statements[1] = <<"'", "O", "'", "'", "B", "r", "i", "e", "n", "'">>

(***************************************************************************)
(* Claims about clean and dirty sessions.                                  *)
(***************************************************************************)
\* C26: hasChanges() is true exactly when one of the update, insert and
\* delete collections is not empty; it is false in a new session, after
\* clearChanges(), which empties the three collections, and after an
\* executeChanges that reports success.
C26_CleanOrDirty ==
    /\ ~hasChanges
    /\ [][/\ hasChanges' <=> (updates' # <<>> \/ inserts' # <<>> \/ deletes' # <<>>)
          /\ deRet'.op = "clearChanges" =>
                (~hasChanges' /\ updates' = <<>> /\ inserts' = <<>> /\ deletes' = <<>>)
          /\ (deRet'.op = "executeChanges" /\ deRet'.result.success) => ~hasChanges'
         ]_vars

\* C26's case: a session with pending changes was saved, every statement
\* succeeded, and the session is clean again.
C26_DeletesSavedAndClean ==
    /\ deRet.op = "executeChanges"
    /\ deRet.result.message = "Successfully saved"
    /\ deRet.result.affectedRows > 0
    /\ ~hasChanges

(***************************************************************************)
(* Claims about the schema cache.                                          *)
(***************************************************************************)
\* The steps in which the loop of an update pass goes over connections.
LoopOps == {"updateSchemaCache", "refreshCache", "failed", "stored"}

\* C27: for every connection with a provider and a relational dialect that
\* the loop of updateSchemaCache comes to, the fetch is started (the first
\* provider call made) exactly when the connection has no snapshot or its
\* snapshot is at least cacheTimeout minutes old; a connection whose
\* snapshot is younger is passed over without a provider call.
C27_FetchesExactlyWhenMissingOrStale ==
    [][scRet'.op \in LoopOps =>
          \A k \in (scRet'.from + 1)..scRet'.to :
              LET id == CacheConns[k]
                  entry == schemaCache'[id]
              IN  (scLive[id] /\ CacheType(id) # MongoDB) =>
                      (scRet'.called = id <=>
                          (~entry.cached \/ now - entry.lastUpdated >= cacheTimeout))
      ]_vars

\* C27's case: a pass went over a connection whose snapshot was younger
\* than five minutes and started the fetch of one whose snapshot was exactly
\* five minutes old.
C27_StaleRefetchedFreshSkipped ==
    /\ scRet.op = "updateSchemaCache"
    /\ scRet.called = "c3"
    /\ scRet.entry.cached
    /\ now - scRet.entry.lastUpdated = cacheTimeout
    /\ scLive["c1"]
    /\ schemaCache["c1"].cached
    /\ now - schemaCache["c1"].lastUpdated < cacheTimeout

\* C28: every "connections changed" notification runs invalidateCache, so
\* that after it the cache holds no snapshot for any connection, and from
\* then on a connection only gets a snapshot in the step in which an update
\* pass stores one.
C28_NotificationEmptiesCacheUntilStored ==
    [][/\ scRet'.op = "onDidChangeConnections" =>
              \A id \in CacheIds : ~schemaCache'[id].cached
       /\ \A id \in CacheIds :
              (schemaCache'[id].cached /\ schemaCache'[id] # schemaCache[id]) =>
                  scRet'.op = "stored"
      ]_vars

\* C28's case: a notification came while the cache held a snapshot, and
\* the cache is empty after it.
C28_SnapshotsDropped ==
    /\ scRet.op = "onDidChangeConnections"
    /\ scRet.dropped = {"c1", "c3"}
    /\ \A id \in CacheIds : ~schemaCache[id].cached

(***************************************************************************)
(* Claims about the directives in the text of the editor.                  *)
(***************************************************************************)
\* The Connected connections the detected name names, case ignored.
NamedConnected ==
    { id \in EditorConnIds :
        /\ active.detectedConnection # <<>>
        /\ toLowerCase(ConnName(id)) = toLowerCase(active.detectedConnection)
        /\ active.states[id] = Connected }
AllConnected == { id \in EditorConnIds : active.states[id] = Connected }

\* C29: the Connection directive chooses the connection only when it names,
\* case ignored, a connection that is Connected, and then it does choose
\* it; without a directive, or with one that names no Connected connection,
\* the only Connected connection is taken or the user is asked; the query is
\* never sent to a connection that is not Connected.
C29_DirectiveChoosesOnlyConnected ==
    active.pc # "idle" =>
        /\ active.via = "directive" => active.selected \in NamedConnected
        /\ (NamedConnected # {} /\ Trim(active.text) # <<>>) => active.via = "directive"
        /\ (NamedConnected = {} /\ active.executed) =>
              \/ active.via = "only" /\ AllConnected = {active.selected}
              \/ active.via = "pick" /\ Cardinality(AllConnected) > 1
        /\ active.pc = "pick" => (NamedConnected = {} /\ Cardinality(AllConnected) > 1)
        /\ active.executed => active.states[active.selected] = Connected

\* C29's case: the directive names, in another case, one of two Connected
\* connections, and the query went to it.
C29_DirectiveChoseAmongTwo ==
    /\ active.via = "directive"
    /\ active.detectedConnection = <<"P", "R", "O", "D">>
    /\ active.selected = "c1"
    /\ AllConnected = {"c1", "c2"}

\* The leading line comments of a text: its lines up to the first line
\* that does not begin with two dashes.
RECURSIVE LeadingComments(_)
LeadingComments(text) ==
    IF Len(text) >= 2 /\ text[1] = "-" /\ text[2] = "-"
    THEN LET end == EndOfLine(text, 1)
         IN  SubSeq(text, 1, end) \o LeadingComments(SubSeq(text, end + 1, Len(text)))
    ELSE <<>>

\* C30: the Connection and the Database directive are recognised only in
\* the leading line comments of the text: what is detected in the text is
\* what is detected in its leading comments alone.
C30_DirectivesOnlyInLeadingComments ==
    (active.pc # "idle" /\ active.warning # "No query to execute") =>
        /\ active.detectedConnection = detectConnectionFromHeader(LeadingComments(active.text))
        /\ active.detectedDatabase = detectDatabaseFromHeader(LeadingComments(active.text))

(***************************************************************************)
(* Claims about the callers of the column metadata.                        *)
(***************************************************************************)
\* C31: for every dialect, MSSQL included, and for every caller that fetches
\* column metadata (getTableMetadata, updateSchemaCache, the tree view), the
\* name bound to the provider's table parameter is the table the caller
\* identified, and the columns it gets are the columns of that table
\* (MongoDB's provider has no columns to give and returns none).
C31_TableParameterIsTheTable ==
    colCall.caller # "none" =>
        /\ TableParameter(colCall.type, colCall.args) = colCall.table
        /\ colCall.type # MongoDB => colCall.columns = Catalogue(colCall.table)

(***************************************************************************)
(* Claims about configuration errors.                                      *)
(***************************************************************************)
\* C32: connect(id) for an id without a configuration, or with one whose
\* dialect tag no provider class exists for, rejects; the provider map, the
\* provider instances, the reported state of the connection and the
\* notifications fired are as they were before the call.
C32_ConfigurationErrorChangesNothing ==
    [][\A t \in OneCall, id \in ConnIds :
        LET raised == ret'.op = "connect" /\ ret'.id = id /\ ret'.result = "error"
            untouched ==
                /\ providers' = providers
                /\ provObj' = provObj
                /\ openHandles' = openHandles
                /\ getConnectionState(id)' = getConnectionState(id)
                /\ ret'.fired = 0
        IN  \* called on an id that has no configuration
            /\ (/\ ~Active(t)
                /\ connections[id] = NoConfig
                /\ tasks'[t].op = "connect" \/ ret'.op = "connect")
               => raised /\ ret'.stage = "config" /\ untouched
            \* resumed with the password of a configuration whose tag is unsupported
            /\ (/\ tasks[t].op = "connect"
                /\ tasks[t].id = id
                /\ tasks[t].cfg \notin DatabaseType
                /\ tasks'[t] # tasks[t])
               => raised /\ ret'.stage \in {"secret", "type"} /\ untouched
    ]_vars

C32_UnsupportedTagRejected ==
    /\ ret.op = "connect"
    /\ ret.result = "error"
    /\ ret.stage = "type"
    /\ connections["c1"] = UnsupportedType
    /\ providers["c1"] = 0

(***************************************************************************)
(* Claims about interleaved calls of the manager.                          *)
(***************************************************************************)
\* The handle of the provider the manager's map holds for the id.
CurrentHandle(id) ==
    IF providers[id] = 0 THEN 0 ELSE provObj[providers[id]].handle

\* C33: in every reachable state, whatever the order and overlap of the
\* connects and disconnects of one connection id, at most one network
\* handle is open, and an open handle is the current handle of the provider
\* the manager's map holds for the id.
C33_OneOpenHandleOwnedByTheMap ==
    \A id \in ConnIds :
        /\ Cardinality(openHandles) <= 1
        /\ \A h \in openHandles : h = CurrentHandle(id)

\* C34: in every reachable state, whatever the order and overlap of
\* addConnection, connect, disconnect and removeConnection, an id that has
\* a provider in the manager's map has a configuration in the connection
\* map.
C34_ProviderHasConfiguration ==
    \A id \in ConnIds : providers[id] # 0 => connections[id] # NoConfig

(***************************************************************************)
(* Claims about the schema cache and the manager's notifications.          *)
(***************************************************************************)
\* C35: in every reachable state, also when a "connections changed"
\* notification arrives while updateSchemaCache is suspended on a provider
\* call, the schema cache holds no snapshot whose fetch began before the
\* most recent notification, and every snapshot is of a connection that has
\* a provider in the manager.
C35_NoSnapshotFromBeforeNotification ==
    \A id \in CacheIds :
        schemaCache[id].cached =>
            /\ ~schemaCache[id].early
            /\ scLive[id]

(***************************************************************************)
(* Claims about what the compiled batch of the DataEditor contains.        *)
(***************************************************************************)
\* C36: whatever pending changes addCellChange, addNewRow and
\* markRowForDeletion have recorded, a change of a cell of a row outside
\* the baseline rows included, a call of executeChanges that has returned
\* did not throw and returned a result with a success flag, a message and
\* the count of the affected rows.
C36_ExecuteChangesNeverThrows ==
    deRet.op = "executeChanges" =>
        /\ ~deRet.out.threw
        /\ deRet.result.message \in
              {"No changes to save", "Connection not available",
               "Successfully saved", "Some changes failed"}
        /\ deRet.result.affectedRows \in Nat

DeletedRowIndexes == { deletes[k].rowIndex : k \in 1..Len(deletes) }

\* C37: whatever the DataEditor operations have recorded, the statements
\* generateSqlStatements returns hold at most one DELETE for each row
\* index, no UPDATE for a row that is marked for deletion, and no UPDATE
\* for a row added in the session whose pending insert was removed again.
C37_NoStatementForADeletedRow ==
    deRet.op = "generateSqlStatements" =>
        LET statements == deRet.out.statements
        IN  /\ CountKind(statements, KindDelete) <= Cardinality(DeletedRowIndexes)
            /\ \A r \in ChangedRows \intersect DeletedRowIndexes :
                  HasRow(OriginalRows, r) =>
                      \A k \in 1..Len(statements) :
                          statements[k] # ClaimedUpdate(r, deRet.tableInfo, deRet.dbType)
            /\ (inserts = <<>> /\ \E r \in ChangedRows : ~HasRow(OriginalRows, r))
                  => CountKind(statements, KindUpdate) = 0

(***************************************************************************)
(* Claims about a failed addConnection.                                    *)
(***************************************************************************)
\* C38: when addConnection rejects, because the secret store or the
\* persistence of the list rejected, the id it was called for (which had no
\* configuration and no password before the call) has no configuration in
\* the manager's map and no stored password, and the call fired no
\* notification.
C38_FailedAddLeavesManagerUnchanged ==
    [][(ret'.op = "add" /\ ret'.result = "error") =>
          /\ connections'[ret'.id] = NoConfig
          /\ secrets'[ret'.id] = NoSecret
          /\ ret'.fired = 0
    ]_vars

(***************************************************************************)
(* Claims about the text splitQueries returns.                             *)
(***************************************************************************)
\* The text between the positions in cuts (and before the first, after the
\* last), in order.
RECURSIVE FragmentsAt(_, _, _, _)
FragmentsAt(query, cuts, i, current) ==
    IF i > Len(query) THEN << current >>
    ELSE IF i \in cuts THEN << current >> \o FragmentsAt(query, cuts, i + 1, <<>>)
    ELSE FragmentsAt(query, cuts, i + 1, Append(current, query[i]))

\* A text without the characters at the positions in cuts and without
\* whitespace.
Unspaced(query, cuts) ==
    LET kept == { i \in 1..Len(query) : i \notin cuts /\ query[i] \notin Whitespace }
        RECURSIVE Take(_)
        Take(i) ==
            IF i > Len(query) THEN <<>>
            ELSE (IF i \in kept THEN << query[i] >> ELSE <<>>) \o Take(i + 1)
    IN  Take(1)

\* C39: for a SQL dialect, the statements splitQueries returns are, in
\* order, the fragments of the script between the semicolons it split on,
\* each trimmed, the fragments of whitespace only left out; so the
\* statements put together and the script without those semicolons are the
\* same characters, whitespace aside.
C39_SplitKeepsTheText ==
    (splitPc = "done" /\ scriptType # MongoDB) =>
        /\ \A i \in splitAt : script[i] = ";"
        /\ splitOut = TrimmedNonEmpty(FragmentsAt(script, splitAt, 1, <<>>))
        /\ Unspaced(Flatten(splitOut), {}) = Unspaced(script, splitAt)

\* C39's case: a script of three fragments, the middle one blank and the
\* last one closing a block comment, was split at its two semicolons.
C39_BlankFragmentDropped ==
    /\ splitPc = "done"
    /\ scriptType = MySQL
    /\ script = <<"a", ";", " ", ";", "*", "/">>
    /\ splitAt = {2, 4}
    /\ splitOut = << <<"a">>, <<"*", "/">> >>

(***************************************************************************)
(* Claims about progress.                                                  *)
(***************************************************************************)
\* C40: where every network call of a provider's connect settles, a
\* connection that is Connecting is later not Connecting (it is Connected or
\* Error, or Disconnected if a disconnect or a removal came between): this
\* holds of the state the manager reports for the id, of every provider
\* instance, and every connect suspended on the network returns.
C40_ConnectingEventuallyLeft ==
    /\ \A id \in ConnIds :
          (getConnectionState(id) = Connecting) ~> (getConnectionState(id) # Connecting)
    /\ \A q \in ProvIds :
          (provObj[q].state = Connecting)
              ~> (provObj[q].state \in {Connected, Error, Disconnected})
    /\ \A t \in TaskIds :
          (tasks[t].pc = "cn_network") ~> (tasks[t].pc # "cn_network")

\* C40's case: a connect returned after a disconnect came between, so the
\* connection it left Connecting is reported Disconnected.
C40_ConnectReturnedAfterDisconnect ==
    /\ ret.op = "connect"
    /\ ret.result = "ok"
    /\ providers["c1"] = 0
    /\ connections["c1"] # NoConfig

====
